---- MODULE Spec2Model ----
(***************************************************************************)
(* A model of ripgzip, a gzip/DEFLATE decompressor written in Rust:        *)
(*   bit_reader.rs       BitSequence, BitReader                            *)
(*   tracking_writer.rs  TrackingWriter (window, CRC-32, byte counter)     *)
(*   huffman_coding.rs   canonical Huffman tables and the three alphabets  *)
(*   deflate.rs          the block loop                                    *)
(*   gzip.rs             member header, trailer                            *)
(*   lib.rs              the driver loop over concatenated members         *)
(*                                                                         *)
(* Three specifications share the variables:                               *)
(*   Spec      the whole decompress call on a byte stream                  *)
(*   SpecTW    a TrackingWriter driven by write / write_previous           *)
(*   SpecHuff  HuffmanCoding::from_lengths on a vector of code lengths     *)
(*                                                                         *)
(* The code's errors are anyhow messages; the model names them after the   *)
(* error kinds of the specification:                                       *)
(*   "wrong id values"                -> BadMagic                          *)
(*   "unsupported compression method" -> UnsupportedMethod                 *)
(*   "header crc16 check failed"      -> BadHeaderCrc                      *)
(*   "nlen check failed"              -> BadStoredHeader                   *)
(*   "unsupported block type"         -> BadBlockType                      *)
(*   "nothing to copy", "CL/LL/D bad code", ensure!(hclen <= 19)           *)
(*                                    -> BadTree                           *)
(*   ":("                             -> BadCode                           *)
(*   "Trying to write very far"       -> BadBackReference                  *)
(*   "written less"                   -> WrittenLess                       *)
(*   "length check failed"            -> LengthMismatch                    *)
(*   "crc32 check failed"             -> CrcMismatch                       *)
(*   io::ErrorKind::UnexpectedEof     -> UnexpectedEof                     *)
(*   any other io::Error              -> IoError                           *)
(*   String::from_utf8 error          -> InvalidUtf8                       *)
(*   a Rust panic (failed assert!, arithmetic overflow with overflow       *)
(*   checks on)                       -> Panic                             *)
(***************************************************************************)
EXTENDS Integers, Sequences, FiniteSets, TLC

VARIABLES
    input,            \* the bytes the underlying reader delivers
    io_fail,          \* what the reader does after them: TRUE an io::Error, FALSE end of stream
    given,            \* how `input` was built (what a conforming decoder must make of it)
    overflow_checks,  \* the build: TRUE panics on integer overflow, FALSE wraps
    pc,               \* where the call is
    result,           \* "running", "Ok", or the error returned
    member,           \* how many members the driver has started
    pos,              \* bytes taken from the underlying reader
    remainder,        \* BitReader.remainder
    reached_last,     \* DeflateReader.reached_last
    block,            \* the BlockHeader being processed
    coding,           \* the (litlen, dist) HuffmanCoding pair of the block
    tree,             \* locals of decode_litlen_distance_trees
    history,          \* TrackingWriter.history
    byte_count,       \* TrackingWriter.byte_count
    digest,           \* TrackingWriter.digest (the CRC-32 register)
    out,              \* the bytes the inner sink has accepted
    last              \* the last operation and what it returned

vars == <<input, io_fail, given, overflow_checks, pc, result, member, pos, remainder,
          reached_last, block, coding, tree, history, byte_count, digest, out, last>>

(* Machine arithmetic                                                      *)

Pow2(n) == 2 ^ n

Min(a, b) == IF a < b THEN a ELSE b

\* One bit of a xor b, at weight w.
XorBit(a, b, w) == (((a \div w) + (b \div w)) % 2) * w
Xor4(a, b) == XorBit(a, b, 1) + XorBit(a, b, 2) + XorBit(a, b, 4) + XorBit(a, b, 8)
XorTab == [k \in 0..255 |-> Xor4(k \div 16, k % 16)]
Xor8(a, b) == 16 * XorTab[(a \div 16) * 16 + (b \div 16)] + XorTab[(a % 16) * 16 + (b % 16)]
Xor16(a, b) == 256 * Xor8(a \div 256, b \div 256) + Xor8(a % 256, b % 256)

\* !x, x | y and x & y for u16
Not16(x) == 65535 - x
Or16(a, b) == (a + b + Xor16(a, b)) \div 2
And16(a, b) == (a + b - Xor16(a, b)) \div 2

\* A u32 is kept as two 16-bit halves: TLC's integers are 32-bit signed.
U32(hi16, lo16) == [hi |-> hi16, lo |-> lo16]
U32FromLe(b) == U32(b[3] + 256 * b[4], b[1] + 256 * b[2])
U32ToLe(x) == <<x.lo % 256, x.lo \div 256, x.hi % 256, x.hi \div 256>>
U16FromLe(b) == b[1] + 256 * b[2]
U16ToLe(x) == <<x % 256, x \div 256>>

(* CRC-32/ISO-HDLC (crc crate, CRC_32_ISO_HDLC): reflected polynomial      *)
(* 0xEDB88320, initial register 0xFFFFFFFF, final xor 0xFFFFFFFF.          *)

CRC_POLY == [hi |-> 60856, lo |-> 33568]   \* 0xEDB8 8320

Shr1(c) == U32(c.hi \div 2, (c.lo \div 2) + 32768 * (c.hi % 2))
CrcBit(c) == IF c.lo % 2 = 1
             THEN U32(Xor16(Shr1(c).hi, CRC_POLY.hi), Xor16(Shr1(c).lo, CRC_POLY.lo))
             ELSE Shr1(c)
CrcTabEntry(n) == CrcBit(CrcBit(CrcBit(CrcBit(CrcBit(CrcBit(CrcBit(CrcBit(U32(0, n)))))))))
CrcTab == [n \in 0..255 |-> CrcTabEntry(n)]

DigestNew == U32(65535, 65535)
DigestWith(e, d) == U32(Xor16(e.hi, d.hi \div 256),
                        Xor16(e.lo, (d.hi % 256) * 256 + d.lo \div 256))
DigestByte(d, b) == DigestWith(CrcTab[Xor8(d.lo % 256, b)], d)

\* Digest::update over s[a..b], halving the range so that the evaluation
\* stays shallow on long buffers.
RECURSIVE DigestRange(_, _, _, _)
DigestThen(x, s, a, b) == IF x.hi >= 0 THEN DigestRange(x, s, a, b) ELSE x
DigestRange(d, s, a, b) ==
    IF a > b THEN d
    ELSE IF a = b THEN DigestByte(d, s[a])
    ELSE DigestThen(DigestRange(d, s, a, (a + b) \div 2), s, (a + b) \div 2 + 1, b)
DigestUpdate(d, s) == DigestRange(d, s, 1, Len(s))
DigestFinalize(d) == U32(65535 - d.hi, 65535 - d.lo)
Crc32(s) == DigestFinalize(DigestUpdate(DigestNew, s))

(* The underlying reader (a BufRead): it delivers `input`, then reports    *)
(* end of stream, or an io::Error when io_fail.                            *)

EndErr == IF io_fail THEN "IoError" ELSE "UnexpectedEof"

\* A read that fills what the stream lacks with zeros instead of failing.
ReadExactShort(p, n) ==
    [err |-> "",
     bytes |-> [i \in 1..n |-> IF p + i <= Len(input) THEN input[p + i] ELSE 0],
     pos |-> Min(p + n, Len(input))]

\* read_exact of n bytes at p (also read_u8, read_u16, read_u32).
ReadExact(p, n) ==
    IF p + n <= Len(input)
    THEN [err |-> "", bytes |-> SubSeq(input, p + 1, p + n), pos |-> p + n]
    ELSE [err |-> EndErr, bytes |-> <<>>, pos |-> p]

\* BufRead::read_until(0, ..): the bytes up to and including the first NUL;
\* at end of stream, the bytes that were left, without an error.
NulAt(p) == IF \E j \in (p + 1)..Len(input) : input[j] = 0
            THEN CHOOSE j \in (p + 1)..Len(input) :
                     input[j] = 0 /\ \A k \in (p + 1)..(j - 1) : input[k] # 0
            ELSE 0
ReadUntilNul(p) ==
    IF NulAt(p) # 0
    THEN [err |-> "", bytes |-> SubSeq(input, p + 1, NulAt(p)), pos |-> NulAt(p)]
    ELSE IF io_fail
    THEN [err |-> "IoError", bytes |-> <<>>, pos |-> p]
    ELSE [err |-> "", bytes |-> SubSeq(input, p + 1, Len(input)), pos |-> Len(input)]

(* bit_reader.rs                                                           *)

BitSeq(b, l) == [bits |-> b, len |-> l]

\* BitSequence::new: the bits above len are cleared (callers pass len <= 16).
BitSequenceNew(b, l) == IF l < 16 THEN BitSeq(b % Pow2(l), l) ELSE BitSeq(b, l)

\* u16 << n and u16 >> n.  A shift by 16 overflows: a panic with overflow
\* checks, otherwise the shift amount is taken modulo 16.
ShiftOverflows(n) == n >= 16
Shl16(x, n) == (x * Pow2(n % 16)) % 65536
Shr16(x, n) == x \div Pow2(n % 16)

\* A concat that puts `other` above `self`: (other << self.len) | self
ConcatSwapped(self, other, oc) ==
    IF other.len + self.len > 16 \/ (oc /\ ShiftOverflows(self.len))
    THEN [err |-> "Panic", seq |-> BitSeq(0, 0)]
    ELSE [err |-> "",
          seq |-> BitSeq(Or16(Shl16(other.bits, self.len), self.bits),
                         self.len + other.len)]

\* BitSequence::concat: (self << other.len) | other
Concat(self, other, oc) ==
    IF other.len + self.len > 16 \/ (oc /\ ShiftOverflows(other.len))
    THEN [err |-> "Panic", seq |-> BitSeq(0, 0)]
    ELSE [err |-> "",
          seq |-> BitSeq(Or16(Shl16(self.bits, other.len), other.bits),
                         self.len + other.len)]

\* BitSequence::consume: the low n bits, and what is left of self.
Consume(self, n, oc) ==
    IF self.len < n \/ (oc /\ ShiftOverflows(n))
    THEN [err |-> "Panic", taken |-> BitSeq(0, 0), rest |-> self]
    ELSE [err |-> "",
          taken |-> BitSequenceNew(And16(self.bits, Not16(Shl16(65535, n))), n),
          rest |-> BitSeq(Shr16(self.bits, n), self.len - n)]

\* The result of a read: the error (or ""), the value, and the reader after it.
RdErr(e, p, rem) == [err |-> e, val |-> BitSeq(0, 0), pos |-> p, rem |-> rem]
RdOk(v, p, rem) == [err |-> "", val |-> v, pos |-> p, rem |-> rem]

\* The bytes read_bits fetches, as one BitSequence (little-endian).
Fetched(bytes) == IF Len(bytes) = 1
                  THEN BitSequenceNew(bytes[1], 8)
                  ELSE BitSequenceNew(bytes[2] * 256 + bytes[1], 16)

\* read_bits, once the bytes are there: bits.consume(to_fill).concat(remainder)
ReadBitsFill(bits, to_fill, p, rem, oc) ==
    IF Consume(bits, to_fill, oc).err # ""
    THEN RdErr("Panic", p, rem)
    ELSE IF Concat(Consume(bits, to_fill, oc).taken, rem, oc).err # ""
    THEN RdErr("Panic", p, rem)
    ELSE RdOk(Concat(Consume(bits, to_fill, oc).taken, rem, oc).seq,
              p, Consume(bits, to_fill, oc).rest)

\* BitReader::read_bits(n) with the reader at byte p and remainder rem.
ReadBits(p, rem, n, oc) ==
    IF n > 16 \/ n = 0
    THEN RdErr("Panic", p, rem)
    ELSE IF rem.len >= n
    THEN IF Consume(rem, n, oc).err # ""
         THEN RdErr("Panic", p, rem)
         ELSE RdOk(Consume(rem, n, oc).taken, p, Consume(rem, n, oc).rest)
    ELSE IF ReadExact(p, (n - rem.len - 1) \div 8 + 1).err # ""
    THEN RdErr(ReadExact(p, (n - rem.len - 1) \div 8 + 1).err, p, rem)
    ELSE ReadBitsFill(Fetched(ReadExact(p, (n - rem.len - 1) \div 8 + 1).bytes),
                      n - rem.len,
                      ReadExact(p, (n - rem.len - 1) \div 8 + 1).pos, rem, oc)

\* A borrow that leaves the remainder where it is.
BorrowKeepsRemainder(rem, oc) == [err |-> "", rem |-> rem]

\* BitReader::borrow_reader_from_boundary: the remainder is dropped.
BorrowReaderFromBoundary(rem, oc) ==
    IF rem.len > 8 \/ Consume(rem, rem.len, oc).err # ""
    THEN [err |-> "Panic", rem |-> rem]
    ELSE [err |-> "", rem |-> Consume(rem, rem.len, oc).rest]

(* huffman_coding.rs: the three alphabets                                  *)

Token(k, b, e) == [kind |-> k, base |-> b, extra_bits |-> e]
NoToken == Token("None", 0, 0)
TokOk(t) == [err |-> "", tok |-> t]
TokErr == [err |-> "BadTree", tok |-> NoToken]

\* TryFrom<HuffmanCodeWord> for TreeCodeToken
TreeCodeTryFrom(v) ==
    IF v <= 15 THEN TokOk(Token("Length", v, 0))
    ELSE IF v = 16 THEN TokOk(Token("CopyPrev", 0, 0))
    ELSE IF v = 17 THEN TokOk(Token("RepeatZero", 3, 3))
    ELSE IF v = 18 THEN TokOk(Token("RepeatZero", 11, 7))
    ELSE TokErr

\* TryFrom<HuffmanCodeWord> for LitLenToken
LitLenExtraBits(v) == (v - 265) \div 4 + 1
LitLenTryFrom(v) ==
    IF v <= 255 THEN TokOk(Token("Literal", v, 0))
    ELSE IF v = 256 THEN TokOk(Token("EndOfBlock", 0, 0))
    ELSE IF v <= 264 THEN TokOk(Token("Length", v - 254, 0))
    ELSE IF v <= 284
    THEN TokOk(Token("Length",
                     (Pow2(LitLenExtraBits(v) + 2) + 3)
                         + ((v - 1) % 4) * Pow2(LitLenExtraBits(v)),
                     LitLenExtraBits(v)))
    ELSE IF v = 285 THEN TokOk(Token("Length", 258, 0))
    ELSE TokErr

\* TryFrom<HuffmanCodeWord> for DistanceToken
DistanceExtraBits(v) == v \div 2 - 1
DistanceTryFrom(v) ==
    IF v <= 3 THEN TokOk(Token("Distance", v + 1, 0))
    ELSE IF v <= 29
    THEN TokOk(Token("Distance",
                     Pow2(DistanceExtraBits(v) + 1)
                         + (v % 2) * Pow2(DistanceExtraBits(v)) + 1,
                     DistanceExtraBits(v)))
    ELSE TokErr

\* T::try_from for the alphabet T of a HuffmanCoding<T>
TryFrom(alphabet, v) ==
    IF alphabet = "TreeCode" THEN TreeCodeTryFrom(v)
    ELSE IF alphabet = "LitLen" THEN LitLenTryFrom(v)
    ELSE DistanceTryFrom(v)

(* huffman_coding.rs: HuffmanCoding.  The map is a function from            *)
(* <<bits, len>> (a BitSequence) to a token.                               *)

MAX_BITS == 15

EmptyMap == [k \in {} |-> NoToken]
Key(seq) == <<seq.bits, seq.len>>
\* HashMap::insert: an entry under the same key is replaced.
MapInsert(map, seq, tok) == (Key(seq) :> tok) @@ map
CodingOk(m) == [err |-> "", map |-> m]
CodingErr(e) == [err |-> e, map |-> EmptyMap]

\* decode_symbol
HasSymbol(map, seq) == Key(seq) \in DOMAIN map
DecodeSymbol(map, seq) == map[Key(seq)]

\* bl_count, with bl_count[0] = 0
BlCount(code_lengths) ==
    [b \in 0..MAX_BITS |->
        IF b = 0 THEN 0
        ELSE Cardinality({i \in 1..Len(code_lengths) : code_lengths[i] = b})]

\* `code` after the iteration for `bits` of the next_code loop:
\* code = (code + bl_count[bits - 1] as u16) << 1
RECURSIVE CodeAt(_, _)
CodeAt(bl, bits) ==
    IF bits = 0 THEN 0
    ELSE Shl16((CodeAt(bl, bits - 1) + (bl[bits - 1] % 65536)) % 65536, 1)
\* the u16 addition in that loop overflows
CodeAddOverflows(bl) ==
    \E bits \in 1..MAX_BITS : CodeAt(bl, bits - 1) + (bl[bits - 1] % 65536) > 65535
NextCode(bl) == [bits \in 0..MAX_BITS |-> CodeAt(bl, bits)]

\* A turn of that loop that forgets next_code[len] += 1.
AssignCodeNoIncrement(code_lengths, i, st, alphabet, oc) ==
    IF st.err # "" \/ code_lengths[i] = 0 THEN st
    ELSE IF TryFrom(alphabet, i - 1).err # "" THEN [st EXCEPT !.err = "BadTree"]
    ELSE [st EXCEPT !.map = MapInsert(st.map,
                                      BitSequenceNew(st.next_code[code_lengths[i]],
                                                     code_lengths[i]),
                                      TryFrom(alphabet, i - 1).tok)]

\* One turn of the loop over (idx, len) of from_lengths, for the index i
\* (1-based), on st = [err, next_code, map]; an error ends the loop.
AssignCode(code_lengths, i, st, alphabet, oc) ==
    IF st.err # "" \/ code_lengths[i] = 0 THEN st
    ELSE IF TryFrom(alphabet, i - 1).err # "" THEN [st EXCEPT !.err = "BadTree"]
    ELSE IF oc /\ st.next_code[code_lengths[i]] + 1 > 65535 THEN [st EXCEPT !.err = "Panic"]
    ELSE [err |-> "",
          next_code |-> [st.next_code EXCEPT ![code_lengths[i]] = (@ + 1) % 65536],
          map |-> MapInsert(st.map,
                            BitSequenceNew(st.next_code[code_lengths[i]], code_lengths[i]),
                            TryFrom(alphabet, i - 1).tok)]

\* The turns for the indices a..b in order, halving the range so that the
\* evaluation stays shallow on long vectors.
RECURSIVE AssignCodes(_, _, _, _, _, _)
AssignCodesThen(code_lengths, a, b, st, alphabet, oc) ==
    IF st.err # "" THEN st ELSE AssignCodes(code_lengths, a, b, st, alphabet, oc)
AssignCodes(code_lengths, a, b, st, alphabet, oc) ==
    IF a > b THEN st
    ELSE IF a = b THEN AssignCode(code_lengths, a, st, alphabet, oc)
    ELSE AssignCodesThen(code_lengths, (a + b) \div 2 + 1, b,
                         AssignCodes(code_lengths, a, (a + b) \div 2, st, alphabet, oc),
                         alphabet, oc)

\* HuffmanCoding::<T>::from_lengths
FromLengthsOf(st) == IF st.err # "" THEN CodingErr(st.err) ELSE CodingOk(st.map)
FromLengths(code_lengths, alphabet, oc) ==
    IF \E i \in 1..Len(code_lengths) : code_lengths[i] > MAX_BITS
    THEN CodingErr("Panic")
    ELSE IF oc /\ CodeAddOverflows(BlCount(code_lengths))
    THEN CodingErr("Panic")
    ELSE FromLengthsOf(AssignCodes(code_lengths, 1, Len(code_lengths),
                                   [err |-> "", next_code |-> NextCode(BlCount(code_lengths)),
                                    map |-> EmptyMap],
                                   alphabet, oc))

\* HuffmanCoding::read_symbol, with `bits` read so far
RECURSIVE ReadSymbolFrom(_, _, _, _, _)
ReadSymbolNext(map, bits, b, oc) ==
    IF b.err # "" THEN [err |-> b.err, tok |-> NoToken, pos |-> b.pos, rem |-> b.rem]
    ELSE IF Concat(bits, b.val, oc).err # ""
    THEN [err |-> "Panic", tok |-> NoToken, pos |-> b.pos, rem |-> b.rem]
    ELSE IF HasSymbol(map, Concat(bits, b.val, oc).seq)
    THEN [err |-> "", tok |-> DecodeSymbol(map, Concat(bits, b.val, oc).seq),
          pos |-> b.pos, rem |-> b.rem]
    ELSE ReadSymbolFrom(map, Concat(bits, b.val, oc).seq, b.pos, b.rem, oc)
ReadSymbolFrom(map, bits, p, rem, oc) ==
    IF bits.len >= 16
    THEN [err |-> "BadCode", tok |-> NoToken, pos |-> p, rem |-> rem]
    ELSE ReadSymbolNext(map, bits, ReadBits(p, rem, 1, oc), oc)
ReadSymbol(map, p, rem, oc) == ReadSymbolFrom(map, BitSequenceNew(0, 0), p, rem, oc)

\* get_fixed_coding: the code word of `lit` in the literal/length table
FixedLitLenCode(lit) ==
    IF lit <= 143 THEN BitSequenceNew(48 + lit, 8)
    ELSE IF lit <= 255 THEN BitSequenceNew(400 + lit - 144, 9)
    ELSE IF lit <= 279 THEN BitSequenceNew(lit - 256, 7)
    ELSE BitSequenceNew(192 + lit - 280, 8)
FixedDistCode(lit) == BitSequenceNew(lit, 5)
FixedCode(alphabet, lit) ==
    IF alphabet = "LitLen" THEN FixedLitLenCode(lit) ELSE FixedDistCode(lit)

\* get_fixed_coding: one turn of an insert loop, on st = [err, map]; the
\* `?` on try_into ends the loop
FixedInsertOne(alphabet, lit, st) ==
    IF st.err # "" THEN st
    ELSE IF TryFrom(alphabet, lit).err # "" THEN CodingErr("BadTree")
    ELSE CodingOk(MapInsert(st.map, FixedCode(alphabet, lit), TryFrom(alphabet, lit).tok))

\* get_fixed_coding: the loop `for lit in a..=b`, halving the range so that
\* the evaluation stays shallow
RECURSIVE FixedInsert(_, _, _, _)
FixedInsertThen(alphabet, a, b, st) ==
    IF st.err # "" THEN st ELSE FixedInsert(alphabet, a, b, st)
FixedInsert(alphabet, a, b, st) ==
    IF a > b THEN st
    ELSE IF a = b THEN FixedInsertOne(alphabet, a, st)
    ELSE FixedInsertThen(alphabet, (a + b) \div 2 + 1, b,
                         FixedInsert(alphabet, a, (a + b) \div 2, st))

FixedLitLenCoding == FixedInsert("LitLen", 0, 287, CodingOk(EmptyMap))
FixedDistCoding == FixedInsert("Distance", 0, 31, CodingOk(EmptyMap))

\* get_fixed_coding
PairOk(l, d) == [err |-> "", litlen |-> l, dist |-> d]
PairErr(e) == [err |-> e, litlen |-> EmptyMap, dist |-> EmptyMap]
GetFixedCoding ==
    IF FixedLitLenCoding.err # "" THEN PairErr(FixedLitLenCoding.err)
    ELSE IF FixedDistCoding.err # "" THEN PairErr(FixedDistCoding.err)
    ELSE PairOk(FixedLitLenCoding.map, FixedDistCoding.map)

(* tracking_writer.rs.  A writer is [history, byte_count, digest]; the     *)
(* inner sink is `out`, and `n` is how many bytes of a buffer it accepts.  *)

HISTORY_SIZE == 32768

Writer(h, c, d) == [history |-> h, byte_count |-> c, digest |-> d]
\* TrackingWriter::new
WriterNew == Writer(<<>>, 0, DigestNew)

\* The history after `written` was accepted.
HistoryAfter(h, written) ==
    IF Len(written) > HISTORY_SIZE
    THEN written
    ELSE IF Len(written) + Len(h) > HISTORY_SIZE
    THEN SubSeq(h, Len(written) + Len(h) - HISTORY_SIZE + 1, Len(h)) \o written
    ELSE h \o written

\* <TrackingWriter as Write>::write(buf), the inner sink accepting n bytes
WriterWrite(w, buf, n) ==
    Writer(HistoryAfter(w.history, SubSeq(buf, 1, n)),
           w.byte_count + n,
           DigestUpdate(w.digest, SubSeq(buf, 1, n)))

\* write_previous: the guard on dist
DistAccepted(w, dist) == dist < Len(w.history)

\* write_previous: the loop that extends the chunk to len bytes
RECURSIVE ExtendChunk(_, _, _)
ExtendChunk(chunk, initial_len, len) ==
    IF Len(chunk) >= len THEN chunk
    ELSE ExtendChunk(SubSeq(chunk \o SubSeq(chunk, 1, initial_len), 1,
                            Min(len, Len(chunk) + initial_len)),
                     initial_len, len)

\* write_previous: past_begin, past_end (0-based, half-open) and the chunk
PastBegin(w, dist) == Len(w.history) - dist
PastEnd(w, dist, len) ==
    IF dist <= len THEN Len(w.history) ELSE Len(w.history) - dist + len
\* A chunk filled up by repeating its last byte instead of its beginning.
RECURSIVE PadChunk(_, _)
PadChunk(chunk, len) ==
    IF Len(chunk) >= len THEN chunk
    ELSE PadChunk(Append(chunk, chunk[Len(chunk)]), len)
ChunkRepeatLast(w, dist, len) ==
    PadChunk(SubSeq(w.history, PastBegin(w, dist) + 1, PastEnd(w, dist, len)), len)
Chunk(w, dist, len) ==
    ExtendChunk(SubSeq(w.history, PastBegin(w, dist) + 1, PastEnd(w, dist, len)),
                PastEnd(w, dist, len) - PastBegin(w, dist), len)

\* write_previous(dist, len), the inner sink accepting n bytes of the chunk.
\* With dist = 0 and len > 0 the extension loop appends nothing and never
\* ends ("Hang").
WritePrevious(w, dist, len, n) ==
    IF ~DistAccepted(w, dist)
    THEN [err |-> "BadBackReference", w |-> w, chunk |-> <<>>, written |-> 0]
    ELSE IF dist = 0 /\ len > 0
    THEN [err |-> "Hang", w |-> w, chunk |-> <<>>, written |-> 0]
    ELSE [err |-> IF n = len THEN "" ELSE "WrittenLess",
          w |-> WriterWrite(w, Chunk(w, dist, len), n),
          chunk |-> Chunk(w, dist, len),
          written |-> n]

(* gzip.rs: the member header                                              *)

ID1 == 31
ID2 == 139
CM_DEFLATE == 8
FTEXT_OFFSET == 0
FHCRC_OFFSET == 1
FEXTRA_OFFSET == 2
FNAME_OFFSET == 3
FCOMMENT_OFFSET == 4

\* MemberFlags::bit and MemberFlags::set_bit
FlagBit(flg, n) == (flg \div Pow2(n)) % 2 # 0
SetBit(flg, n, value) ==
    IF value = FlagBit(flg, n) THEN flg
    ELSE IF value THEN flg + Pow2(n) ELSE flg - Pow2(n)

\* Option<T>
None == [some |-> FALSE, v |-> <<>>]
Some(x) == [some |-> TRUE, v |-> x]

\* MemberHeader::default(), with compression_method as its u8
DefaultHeader ==
    [compression_method |-> 42, modification_time |-> U32(0, 0),
     extra |-> None, name |-> None, comment |-> None,
     extra_flags |-> 0, os |-> 0, has_crc |-> FALSE, is_text |-> FALSE]

\* MemberHeader::flags: the flag byte rebuilt from the parsed fields
HeaderFlags(h) ==
    SetBit(SetBit(SetBit(SetBit(SetBit(0, FTEXT_OFFSET, h.is_text),
                                FHCRC_OFFSET, h.has_crc),
                         FEXTRA_OFFSET, h.extra.some),
                  FNAME_OFFSET, h.name.some),
           FCOMMENT_OFFSET, h.comment.some)

\* MemberHeader::crc16: the bytes the digest is fed, and the result
Crc16Bytes(h) ==
    <<ID1, ID2, h.compression_method, HeaderFlags(h)>>
        \o U32ToLe(h.modification_time)
        \o <<h.extra_flags, h.os>>
        \o (IF h.extra.some
            THEN U16ToLe(Len(h.extra.v) % 65536) \o h.extra.v ELSE <<>>)
        \o (IF h.name.some THEN h.name.v \o <<0>> ELSE <<>>)
        \o (IF h.comment.some THEN h.comment.v \o <<0>> ELSE <<>>)
Crc16(h) == Crc32(Crc16Bytes(h)).lo

\* String::from_utf8: whether s[i..] is well-formed UTF-8
Cont(s, i) == i <= Len(s) /\ s[i] \in 128..191
In(s, i, lo, hi) == i <= Len(s) /\ s[i] \in lo..hi
RECURSIVE Utf8From(_, _)
Utf8From(s, i) ==
    IF i > Len(s) THEN TRUE
    ELSE IF s[i] < 128 THEN Utf8From(s, i + 1)
    ELSE IF s[i] \in 194..223 THEN Cont(s, i + 1) /\ Utf8From(s, i + 2)
    ELSE IF s[i] = 224
    THEN In(s, i + 1, 160, 191) /\ Cont(s, i + 2) /\ Utf8From(s, i + 3)
    ELSE IF s[i] \in (225..236) \cup (238..239)
    THEN Cont(s, i + 1) /\ Cont(s, i + 2) /\ Utf8From(s, i + 3)
    ELSE IF s[i] = 237
    THEN In(s, i + 1, 128, 159) /\ Cont(s, i + 2) /\ Utf8From(s, i + 3)
    ELSE IF s[i] = 240
    THEN In(s, i + 1, 144, 191) /\ Cont(s, i + 2) /\ Cont(s, i + 3) /\ Utf8From(s, i + 4)
    ELSE IF s[i] \in 241..243
    THEN Cont(s, i + 1) /\ Cont(s, i + 2) /\ Cont(s, i + 3) /\ Utf8From(s, i + 4)
    ELSE IF s[i] = 244
    THEN In(s, i + 1, 128, 143) /\ Cont(s, i + 2) /\ Cont(s, i + 3) /\ Utf8From(s, i + 4)
    ELSE FALSE
IsUtf8(s) == Utf8From(s, 1)

\* parse_header keeps [err, pos, flg, h]: the error (or ""), the reader's
\* position, the flag byte as read, and the MemberHeader so far.
Hdr(e, p, f, hd) == [err |-> e, pos |-> p, flg |-> f, h |-> hd]
HdrErr(e, st) == [st EXCEPT !.err = e]

\* A parse_header that reads ID1, ID2 and CM before it looks at any of them.
HdrMagicLate(p) ==
    IF ReadExact(p, 3).err # "" THEN Hdr(ReadExact(p, 3).err, p, 0, DefaultHeader)
    ELSE IF input[p + 1] # ID1 \/ input[p + 2] # ID2 THEN Hdr("BadMagic", p + 3, 0, DefaultHeader)
    ELSE IF input[p + 3] # CM_DEFLATE
    THEN Hdr("UnsupportedMethod", p + 3, 0,
             [DefaultHeader EXCEPT !.compression_method = input[p + 3]])
    ELSE Hdr("", p + 3, 0, [DefaultHeader EXCEPT !.compression_method = CM_DEFLATE])

\* parse_header: ID1, ID2, CM
HdrMagic(p) ==
    IF ReadExact(p, 1).err # "" THEN Hdr(ReadExact(p, 1).err, p, 0, DefaultHeader)
    ELSE IF input[p + 1] # ID1 THEN Hdr("BadMagic", p + 1, 0, DefaultHeader)
    ELSE IF ReadExact(p + 1, 1).err # "" THEN Hdr(ReadExact(p + 1, 1).err, p + 1, 0, DefaultHeader)
    ELSE IF input[p + 2] # ID2 THEN Hdr("BadMagic", p + 2, 0, DefaultHeader)
    ELSE IF ReadExact(p + 2, 1).err # "" THEN Hdr(ReadExact(p + 2, 1).err, p + 2, 0, DefaultHeader)
    ELSE IF input[p + 3] # CM_DEFLATE
    THEN Hdr("UnsupportedMethod", p + 3, 0,
             [DefaultHeader EXCEPT !.compression_method = input[p + 3]])
    ELSE Hdr("", p + 3, 0, [DefaultHeader EXCEPT !.compression_method = CM_DEFLATE])

\* parse_header: FLG, MTIME, XFL, OS
HdrFixed(st) ==
    IF st.err # "" THEN st
    ELSE IF ReadExact(st.pos, 1).err # "" THEN HdrErr(ReadExact(st.pos, 1).err, st)
    ELSE IF ReadExact(st.pos + 1, 4).err # "" THEN HdrErr(ReadExact(st.pos + 1, 4).err, st)
    ELSE IF ReadExact(st.pos + 5, 1).err # "" THEN HdrErr(ReadExact(st.pos + 5, 1).err, st)
    ELSE IF ReadExact(st.pos + 6, 1).err # "" THEN HdrErr(ReadExact(st.pos + 6, 1).err, st)
    ELSE Hdr("", st.pos + 7, input[st.pos + 1],
             [st.h EXCEPT !.modification_time = U32FromLe(ReadExact(st.pos + 1, 4).bytes),
                          !.extra_flags = input[st.pos + 6],
                          !.os = input[st.pos + 7]])

\* parse_header: XLEN and the extra field, when FLG.FEXTRA
HdrExtraBody(st, xlen) ==
    IF ReadExact(st.pos + 2, xlen).err # ""
    THEN HdrErr(ReadExact(st.pos + 2, xlen).err, st)
    ELSE [st EXCEPT !.pos = st.pos + 2 + xlen,
                    !.h.extra = Some(ReadExact(st.pos + 2, xlen).bytes)]
HdrExtra(st) ==
    IF st.err # "" \/ ~FlagBit(st.flg, FEXTRA_OFFSET) THEN st
    ELSE IF ReadExact(st.pos, 2).err # "" THEN HdrErr(ReadExact(st.pos, 2).err, st)
    ELSE HdrExtraBody(st, U16FromLe(ReadExact(st.pos, 2).bytes))

\* parse_header: a string read with read_until(0) and String::from_utf8;
\* the string kept holds every byte read, the NUL included
HdrString(st, r, field) ==
    IF r.err # "" THEN HdrErr(r.err, st)
    ELSE IF ~IsUtf8(r.bytes) THEN HdrErr("InvalidUtf8", [st EXCEPT !.pos = r.pos])
    ELSE IF field = "name"
    THEN [st EXCEPT !.pos = r.pos, !.h.name = Some(r.bytes)]
    ELSE [st EXCEPT !.pos = r.pos, !.h.comment = Some(r.bytes)]
HdrName(st) ==
    IF st.err # "" \/ ~FlagBit(st.flg, FNAME_OFFSET) THEN st
    ELSE HdrString(st, ReadUntilNul(st.pos), "name")
HdrComment(st) ==
    IF st.err # "" \/ ~FlagBit(st.flg, FCOMMENT_OFFSET) THEN st
    ELSE HdrString(st, ReadUntilNul(st.pos), "comment")

\* parse_header: is_text
HdrText(st) ==
    IF st.err # "" \/ ~FlagBit(st.flg, FTEXT_OFFSET) THEN st
    ELSE [st EXCEPT !.h.is_text = TRUE]

\* parse_header: the CRC16, when FLG.FHCRC
HdrCrcCheck(st, crc) ==
    IF crc = Crc16(st.h) THEN st ELSE HdrErr("BadHeaderCrc", st)
HdrCrc(st) ==
    IF st.err # "" \/ ~FlagBit(st.flg, FHCRC_OFFSET) THEN st
    ELSE IF ReadExact(st.pos, 2).err # "" THEN HdrErr(ReadExact(st.pos, 2).err, st)
    ELSE HdrCrcCheck([st EXCEPT !.pos = st.pos + 2, !.h.has_crc = TRUE],
                     U16FromLe(ReadExact(st.pos, 2).bytes))

\* GzipReader::parse_header with the reader at byte p
ParseHeader(p) ==
    HdrCrc(HdrText(HdrComment(HdrName(HdrExtra(HdrFixed(HdrMagic(p)))))))

\* The two checks of the trailer the other way round: the CRC first.
TrailerCheckCrcFirst(data_crc32, data_size, actual_crc, actual_size) ==
    IF data_crc32 # actual_crc THEN "CrcMismatch"
    ELSE IF data_size # actual_size THEN "LengthMismatch"
    ELSE ""

\* GzipReader::decompress: the two checks of the trailer, in the code's order
TrailerCheck(data_crc32, data_size, actual_crc, actual_size) ==
    IF data_size # actual_size THEN "LengthMismatch"
    ELSE IF data_crc32 # actual_crc THEN "CrcMismatch"
    ELSE ""

(* huffman_coding.rs: decode_litlen_distance_trees                         *)

TREE_CODE_ORDER == <<16, 17, 18, 0, 8, 7, 9, 6, 10, 5, 11, 4, 12, 3, 13, 2, 14, 1, 15>>

\* The loop `for i in 0..hclen` that fills tree_len (a 0-based vector of 19
\* code lengths, here indexed from 1), from iteration i on.
RECURSIVE ReadTreeLen(_, _, _, _, _, _)
ReadTreeLenNext(b, i, hclen, tree_len, oc) ==
    IF b.err # "" THEN [err |-> b.err, tree_len |-> tree_len, pos |-> b.pos, rem |-> b.rem]
    ELSE ReadTreeLen(b.pos, b.rem, i + 1, hclen,
                     [tree_len EXCEPT ![TREE_CODE_ORDER[i + 1] + 1] = b.val.bits], oc)
ReadTreeLen(p, rem, i, hclen, tree_len, oc) ==
    IF i >= hclen THEN [err |-> "", tree_len |-> tree_len, pos |-> p, rem |-> rem]
    ELSE ReadTreeLenNext(ReadBits(p, rem, 3, oc), i, hclen, tree_len, oc)

\* vec![x; n]
Repeat(x, n) == [i \in 1..n |-> x]

(* Bounds of the model                                                     *)

MaxByte == 1      \* TrackingWriter buffers hold bytes 0..MaxByte
MaxBufLen == 1    \* the longest short buffer of a write
MaxLen == 3       \* the longest run asked of write_previous
MaxOps == 2       \* operations on one TrackingWriter
MaxSymbols == 3   \* the longest vector given to from_lengths
MaxCodeLen == 3   \* the largest code length in it

(* What stays fixed in a specification that does not use it               *)

NoGiven == [members |-> <<>>, junk |-> <<>>, whole |-> TRUE]
NoBlock == [is_final |-> FALSE, compression_type |-> 0]
NoCoding == [litlen |-> EmptyMap, dist |-> EmptyMap]
NoTree == [hlit |-> 0, hdist |-> 0, tree_code |-> EmptyMap, code_lengths |-> <<>>]
NoLast == [op |-> "none", err |-> "", step |-> 0]

W == Writer(history, byte_count, digest)

(* SpecTW: one TrackingWriter, written to by its caller                    *)

\* The buffers of a write: every short buffer, and, into a fresh writer, a
\* long one around the window size (a stored block is written in one call).
RECURSIVE SeqsOver(_, _)
SeqsOver(S, n) ==
    IF n = 0 THEN {<<>>}
    ELSE SeqsOver(S, n - 1) \cup {Append(s, b) : s \in {t \in SeqsOver(S, n - 1) : Len(t) = n - 1}, b \in S}
ShortBuffers == SeqsOver(0..MaxByte, MaxBufLen)
LongBuffer(n) == [i \in 1..n |-> (i * i) % 251]
LongLens == {HISTORY_SIZE - 1, HISTORY_SIZE, HISTORY_SIZE + 1}

\* How many bytes of a buffer of length n the inner sink may take.
ShortAccepts(n) == {k \in {n - 1, n} : k >= 0}

\* The distances tried: short ones, and those around the history length and
\* the window size.
TWDists == {d \in {1, 2, Len(history) - 1, Len(history), Len(history) + 1, HISTORY_SIZE} : d >= 1}

TWInit ==
    /\ input = <<>> /\ io_fail = FALSE /\ given = NoGiven
    /\ overflow_checks \in BOOLEAN
    /\ pc = "writer" /\ result = "running" /\ member = 0 /\ pos = 0
    /\ remainder = BitSeq(0, 0) /\ reached_last = FALSE
    /\ block = NoBlock /\ coding = NoCoding /\ tree = NoTree
    /\ history = WriterNew.history
    /\ byte_count = WriterNew.byte_count
    /\ digest = WriterNew.digest
    /\ out = <<>>
    /\ last = NoLast

TWUnchanged == UNCHANGED <<input, io_fail, given, overflow_checks, pc, result, member, pos,
                           remainder, reached_last, block, coding, tree>>

TWSet(w) ==
    /\ history' = w.history
    /\ byte_count' = w.byte_count
    /\ digest' = w.digest

\* writer.write(buf)
TWWriteBuf(buf, n, steps) ==
    /\ TWSet(WriterWrite(W, buf, n))
    /\ out' = out \o SubSeq(buf, 1, n)
    /\ last' = [op |-> "write", err |-> "", step |-> last.step + steps,
                dist |-> 0, len |-> Len(buf), written |-> n]
    /\ TWUnchanged

TWWrite ==
    /\ pc = "writer" /\ last.step < MaxOps
    /\ \E buf \in ShortBuffers : \E n \in ShortAccepts(Len(buf)) : TWWriteBuf(buf, n, 1)

\* A long buffer leaves room for one more operation.
TWWriteLong ==
    /\ pc = "writer" /\ last.step = 0 /\ MaxOps >= 2
    /\ \E n \in LongLens : TWWriteBuf(LongBuffer(n), n, MaxOps - 1)

\* writer.write_previous(dist, len)
TWWritePreviousOf(r, dist, len) ==
    /\ TWSet(r.w)
    /\ out' = out \o SubSeq(r.chunk, 1, r.written)
    /\ last' = [op |-> "write_previous", err |-> r.err, step |-> last.step + 1,
                dist |-> dist, len |-> len, written |-> r.written]
    /\ TWUnchanged

TWWritePrevious ==
    /\ pc = "writer" /\ last.step < MaxOps
    /\ \E dist \in TWDists : \E len \in 1..MaxLen : \E n \in ShortAccepts(len) :
           TWWritePreviousOf(WritePrevious(W, dist, len, n), dist, len)

TWNext == TWWrite \/ TWWriteLong \/ TWWritePrevious

SpecTW == TWInit /\ [][TWNext]_vars

(* Claims about TrackingWriter, checked under SpecTW                       *)

\* C3: write_previous(dist, len) succeeds for every dist with
\* 1 <= dist <= history.len() and fails with BadBackReference only when dist
\* exceeds the number of bytes in the history; a failed call leaves the
\* writer as it was (history, byte_count and digest are the arguments of the
\* call that failed, so the history compared with is the one before it).
C3_BackReferenceOnlyBeyondHistory ==
    (last.op = "write_previous" /\ last.err = "BadBackReference")
        => last.dist > Len(history)

\* C5: after any sequence of writes the history holds exactly
\* min(byte_count, 32768) bytes.
C5_HistoryLenIsMin ==
    Len(history) = Min(byte_count, HISTORY_SIZE)

\* The copy of the algorithm in RFC 1951, one byte at a time, each byte read
\* dist positions behind the byte being written (so a byte written by this
\* copy can be read by it again).
SerialByte(h, copied, dist) ==
    IF Len(copied) < dist
    THEN h[Len(h) - dist + Len(copied) + 1]
    ELSE copied[Len(copied) - dist + 1]
RECURSIVE SerialCopy(_, _, _, _)
SerialCopy(h, copied, dist, len) ==
    IF Len(copied) = len THEN copied
    ELSE SerialCopy(h, Append(copied, SerialByte(h, copied, dist)), dist, len)

\* C6: a write_previous(dist, len) that succeeds hands the sink exactly the
\* len bytes of the byte-by-byte copy, whether dist >= len or dist < len, and
\* byte_count grows by exactly len.
C6_WritePreviousStep ==
    (last'.op = "write_previous" /\ last'.err = "")
        => /\ out' = out \o SerialCopy(history, <<>>, last'.dist, last'.len)
           /\ byte_count' = byte_count + last'.len
C6_WritePreviousIsSerialCopy == [][C6_WritePreviousStep]_vars

\* C6 happens: an overlapping copy (dist = 2 < len = 3) of two bytes that
\* differ has succeeded, its third byte being the first one again.
C6_OverlappingCopyDone ==
    /\ last.op = "write_previous" /\ last.err = ""
    /\ last.dist = 2 /\ last.len = 3
    /\ out[Len(out)] # out[Len(out) - 1]
    /\ out[Len(out)] = out[Len(out) - 2]

\* The bytes the sink accepted in a step
Accepted == SubSeq(out', Len(out) + 1, Len(out'))

\* C17: a write returns the number n of bytes the sink accepted, and
\* byte_count, the CRC-32 and the history advance by those n bytes and no
\* others (by nothing when n = 0); a write_previous whose run is accepted in
\* part returns an error, byte_count having grown by what was accepted.  How
\* many bytes the history keeps is the matter of C5: here it is the end of
\* the old history followed by the accepted bytes, the window at least.
C17_AcceptedStep ==
    last'.step > last.step
        => /\ Len(Accepted) = last'.written
           /\ byte_count' = byte_count + last'.written
           /\ digest' = DigestUpdate(digest, Accepted)
           /\ Len(history') <= Len(history) + last'.written
           /\ Len(history') >= Min(Len(history) + last'.written, HISTORY_SIZE)
           /\ history' = SubSeq(history \o Accepted,
                                Len(history) + last'.written - Len(history') + 1,
                                Len(history) + last'.written)
           /\ last'.written = 0 => UNCHANGED <<history, byte_count, digest>>
           /\ last'.op = "write" => last'.err = ""
           /\ (last'.op = "write_previous" /\ last'.written < last'.len) => last'.err # ""
C17_OnlyAcceptedBytesCount == [][C17_AcceptedStep]_vars

(* SpecHuff: from_lengths applied to a vector of code lengths             *)

\* Every short vector of short lengths, and some with the longest codes; the
\* last is the vector of the tests of huffman_coding.rs
LongCodeVectors == { <<15>>, <<1, 15, 15>>, <<2, 1, 15>>, <<1, 1, 15>>, <<0, 14, 15, 15>>,
                     <<2, 3, 4, 3, 3, 4, 2>> }
LengthVectors == SeqsOver(0..MaxCodeLen, MaxSymbols) \cup LongCodeVectors
Alphabets == {"TreeCode", "LitLen", "Distance"}

HuffInit ==
    /\ input = <<>> /\ io_fail = FALSE /\ given = NoGiven
    /\ overflow_checks \in BOOLEAN
    /\ pc = "from_lengths" /\ result = "running" /\ member = 0 /\ pos = 0
    /\ remainder = BitSeq(0, 0) /\ reached_last = FALSE
    /\ block = NoBlock /\ coding = NoCoding
    /\ \E v \in LengthVectors : tree = [NoTree EXCEPT !.code_lengths = v]
    /\ history = WriterNew.history
    /\ byte_count = WriterNew.byte_count
    /\ digest = WriterNew.digest
    /\ out = <<>>
    /\ last = NoLast

\* HuffmanCoding::<T>::from_lengths(code_lengths)
HuffFromLengthsOf(r, alphabet) ==
    /\ coding' = [litlen |-> r.map, dist |-> EmptyMap]
    /\ last' = [op |-> "from_lengths", err |-> r.err, step |-> 1, alphabet |-> alphabet]
    /\ pc' = "built"
    /\ UNCHANGED <<input, io_fail, given, overflow_checks, result, member, pos, remainder,
                   reached_last, block, tree, history, byte_count, digest, out>>

HuffFromLengths ==
    /\ pc = "from_lengths"
    /\ \E alphabet \in Alphabets :
           HuffFromLengthsOf(FromLengths(tree.code_lengths, alphabet, overflow_checks),
                             alphabet)

HuffNext == HuffFromLengths

SpecHuff == HuffInit /\ [][HuffNext]_vars

(* Claims about HuffmanCoding, checked under SpecHuff                      *)

\* The first code of each length computed as in RFC 1951, in unbounded
\* integers, and whether the codes of some length run past 2^length.
RECURSIVE ExactCodeAt(_, _)
ExactCodeAt(bl, bits) ==
    IF bits = 0 THEN 0 ELSE 2 * (ExactCodeAt(bl, bits - 1) + bl[bits - 1])
OverSubscribed(code_lengths) ==
    \E b \in 1..MAX_BITS :
        ExactCodeAt(BlCount(code_lengths), b) + BlCount(code_lengths)[b] > Pow2(b)

\* C9: from_lengths turns down an over-subscribed vector of code lengths
\* (three symbols of length 1, say) with BadTree.
C9_OverSubscribedIsBadTree ==
    (last.op = "from_lengths" /\ OverSubscribed(tree.code_lengths))
        => last.err = "BadTree"

\* The table of RFC 1951, 3.2.2: symbol i (from 1 here) with a length
\* L[i] > 0 has the code word of that length whose value is the first code
\* of the length plus the number of earlier symbols of the same length.
RfcCode(L, i) ==
    ExactCodeAt(BlCount(L), L[i]) + Cardinality({j \in 1..(i - 1) : L[j] = L[i]})
RfcKeys(L) == { <<RfcCode(L, i), L[i]>> : i \in {j \in 1..Len(L) : L[j] > 0} }
RfcSymbolOf(L, key) ==
    CHOOSE i \in 1..Len(L) : L[i] > 0 /\ key = <<RfcCode(L, i), L[i]>>
ProperPrefixes(key) == { <<key[1] \div Pow2(key[2] - l), l>> : l \in 0..(key[2] - 1) }

\* C15: for a vector of lengths that is not over-subscribed, from_lengths
\* returns the table of RFC 1951: its keys are exactly the code words of the
\* symbols with a length above 0, each decoding to its symbol, and no proper
\* prefix of a code word is a key.
C15_FromLengthsIsCanonical ==
    (last.op = "from_lengths" /\ ~OverSubscribed(tree.code_lengths))
        => /\ last.err = ""
           /\ DOMAIN coding.litlen = RfcKeys(tree.code_lengths)
           /\ \A key \in RfcKeys(tree.code_lengths) :
                  /\ coding.litlen[key]
                         = TryFrom(last.alphabet, RfcSymbolOf(tree.code_lengths, key) - 1).tok
                  /\ ProperPrefixes(key) \cap DOMAIN coding.litlen = {}

\* C15 happens: the vector of the tests, with two lengths shared by several
\* symbols, has been given its seven code words.
C15_TestVectorBuilt ==
    /\ last.op = "from_lengths" /\ last.err = ""
    /\ tree.code_lengths = <<2, 3, 4, 3, 3, 4, 2>>
    /\ Cardinality(DOMAIN coding.litlen) = 7
    /\ <<14, 4>> \in DOMAIN coding.litlen

(* Spec: decompress(input, output), the sink accepting every byte.         *)
(* The streams it is run on are built here from RFC 1951 and RFC 1952,     *)
(* with what a conforming decoder makes of each.                           *)

\* v in n bits, least significant bit first (fields, extra bits) and most
\* significant bit first (Huffman codes)
RECURSIVE LsbBits(_, _)
LsbBits(v, n) == IF n = 0 THEN <<>> ELSE <<v % 2>> \o LsbBits(v \div 2, n - 1)
RECURSIVE MsbBits(_, _)
MsbBits(v, n) == IF n = 0 THEN <<>> ELSE MsbBits(v \div 2, n - 1) \o <<v % 2>>

\* Bits packed into bytes from the least significant bit up
PadToByte(bits) == bits \o [i \in 1..((8 - (Len(bits) % 8)) % 8) |-> 0]
PackByte(bits, k) ==
    bits[k + 1] + 2 * bits[k + 2] + 4 * bits[k + 3] + 8 * bits[k + 4]
        + 16 * bits[k + 5] + 32 * bits[k + 6] + 64 * bits[k + 7] + 128 * bits[k + 8]
PackBits(bits) == [k \in 1..(Len(bits) \div 8) |-> PackByte(bits, 8 * (k - 1))]
BytesBits(bytes) ==
    [i \in 1..(8 * Len(bytes)) |-> (bytes[(i - 1) \div 8 + 1] \div Pow2((i - 1) % 8)) % 2]

\* A stored block after the bits `prev`: BFINAL, BTYPE = 00, padding, LEN,
\* NLEN (the complement of LEN unless nlen_ok is FALSE), the data
StoredBits(prev, final, data, nlen_ok) ==
    PadToByte(prev \o <<final, 0, 0>>)
        \o BytesBits(U16ToLe(Len(data))
                     \o U16ToLe(IF nlen_ok THEN 65535 - Len(data) ELSE Len(data))
                     \o data)

\* The fixed codes of RFC 1951, 3.2.6, and a block that uses them
RfcFixedLitLen(sym) ==
    IF sym <= 143 THEN MsbBits(48 + sym, 8)
    ELSE IF sym <= 255 THEN MsbBits(400 + (sym - 144), 9)
    ELSE IF sym <= 279 THEN MsbBits(sym - 256, 7)
    ELSE MsbBits(192 + (sym - 280), 8)
RfcFixedDist(sym) == MsbBits(sym, 5)
FixedBits(prev, final, symbols) == prev \o <<final, 1, 0>> \o symbols

\* A dynamic block with HLIT = 258, HDIST = 1 and HCLEN = 18.
\*   code-length code:   18 -> 0    1 -> 10    2 -> 11
\*   literal/length code: 'a' (97) -> 0    256 -> 10    257 (length 3) -> 11
\*   distance code:       0 (distance 1) -> 0
\* `lengths` are the coded code lengths, `symbols` the coded data.
DynTreeLens ==
    [i \in 1..18 |-> IF TREE_CODE_ORDER[i] = 18 THEN 1
                     ELSE IF TREE_CODE_ORDER[i] \in {1, 2} THEN 2 ELSE 0]
RECURSIVE Bits3(_, _)
Bits3(lens, i) == IF i > Len(lens) THEN <<>> ELSE LsbBits(lens[i], 3) \o Bits3(lens, i + 1)
DynBits(prev, final, lengths, symbols) ==
    prev \o <<final, 0, 1>> \o LsbBits(258 - 257, 5) \o LsbBits(1 - 1, 5)
         \o LsbBits(18 - 4, 4) \o Bits3(DynTreeLens, 1) \o lengths \o symbols
ClLen1 == <<1, 0>>
ClLen2 == <<1, 1>>
ClZeros(n) == <<0>> \o LsbBits(n - 11, 7)
\* 97 zeros, 1 for 'a', 158 zeros, 2 for 256 and 257, 1 for distance 0
DynLengths ==
    ClZeros(97) \o ClLen1 \o ClZeros(138) \o ClZeros(20) \o ClLen2 \o ClLen2 \o ClLen1
\* the same with the last run of zeros 4 too long: 260 lengths where 259 are due
DynLengthsOverrun ==
    ClZeros(97) \o ClLen1 \o ClZeros(138) \o ClZeros(24) \o ClLen2 \o ClLen2 \o ClLen1
DynA == <<0>>
DynEob == <<1, 0>>
DynCopy3Dist1 == <<1, 1>> \o <<0>>

\* A dynamic block with HCLEN = 19 whose code-length code gives each of its
\* 19 symbols 5 bits, so that symbol s has the code word s: any vector of
\* code lengths can be coded with it.
Cl5(s) == MsbBits(s, 5)
Cl5Zeros(n) == Cl5(18) \o LsbBits(n - 11, 7)
Cl5Copy(n) == Cl5(16) \o LsbBits(n - 3, 2)
RECURSIVE Cl5All(_, _)
Cl5All(lens, i) == IF i > Len(lens) THEN <<>> ELSE Cl5(lens[i]) \o Cl5All(lens, i + 1)
Dyn5Bits(final, hlit, hdist, lengths, symbols) ==
    <<final, 0, 1>> \o LsbBits(hlit - 257, 5) \o LsbBits(hdist - 1, 5)
        \o LsbBits(19 - 4, 4) \o Bits3([i \in 1..19 |-> 5], 1) \o lengths \o symbols

\* The deflate streams tried: the bits, the data they stand for, whether
\* they are well-formed, and what is in them.
Body(b, p, v, k) == [bits |-> b, payload |-> p, ok |-> v, kind |-> k]
\* Literals 97..100 and 253..256 with 3 bits each, the lengths of 98..100
\* and of 254..256 given by a copy of the length before them, and the three
\* zeros before 97 by a copy of a zero; the data is "bd"
Copy3Body ==
    Body(Dyn5Bits(1, 257, 1,
                  Cl5Zeros(94) \o Cl5Copy(3) \o Cl5(3) \o Cl5Copy(3) \o Cl5Zeros(138)
                      \o Cl5Zeros(14) \o Cl5(3) \o Cl5Copy(3) \o Cl5(3),
                  MsbBits(1, 3) \o MsbBits(3, 3) \o MsbBits(7, 3)),
         <<98, 100>>, TRUE, "dynamic, copy 3")
\* Literals 97..103 and 256 with 3 bits each, the lengths of 98..103 given
\* by one copy of 6; the data is "bg"
Copy6Body ==
    Body(Dyn5Bits(1, 257, 1,
                  Cl5Zeros(97) \o Cl5(3) \o Cl5Copy(6) \o Cl5Zeros(138)
                      \o Cl5Zeros(14) \o Cl5(3) \o Cl5(3),
                  MsbBits(1, 3) \o MsbBits(6, 3) \o MsbBits(7, 3)),
         <<98, 103>>, TRUE, "dynamic, copy 6")
\* HLIT = 287 or 288, and a code of 1 bit for 256 and for the last
\* literal/length symbol (286 or 287)
ReservedBody(hlit) ==
    Body(Dyn5Bits(1, hlit, 1,
                  Cl5Zeros(138) \o Cl5Zeros(118) \o Cl5(1) \o Cl5Zeros(hlit - 258)
                      \o Cl5(1) \o Cl5(1),
                  <<0>>),
         <<>>, FALSE, "dynamic, reserved symbol")
\* HLIT = 287 and a code of 15 bits for 286, after an over-subscribed set:
\* seven codes of 1 bit, one each of 2..13 bits, two of 14 bits
CrowdedLens == <<1, 1, 1, 1, 1, 1, 1, 2, 3, 4, 5, 6, 7, 8, 9, 10, 11, 12, 13, 14, 14>>
CrowdedReservedBody ==
    Body(Dyn5Bits(1, 287, 1,
                  Cl5All(CrowdedLens, 1) \o Cl5Zeros(138) \o Cl5Zeros(127)
                      \o Cl5(15) \o Cl5(1),
                  <<0>>),
         <<>>, FALSE, "dynamic, reserved symbol, crowded")
\* The code lengths begin with a copy of the length before
CopyFirstBody ==
    Body(Dyn5Bits(1, 257, 1, Cl5Copy(4) \o Cl5Zeros(138), <<>>),
         <<>>, FALSE, "dynamic, copy first")
Bodies ==
    { Body(StoredBits(<<>>, 1, <<>>, TRUE), <<>>, TRUE, "stored"),
      Body(StoredBits(<<>>, 1, <<104, 105>>, TRUE), <<104, 105>>, TRUE, "stored"),
      Body(StoredBits(StoredBits(<<>>, 0, <<104>>, TRUE), 1, <<105>>, TRUE),
           <<104, 105>>, TRUE, "stored"),
      Body(StoredBits(<<>>, 1, <<104, 105>>, FALSE), <<104, 105>>, FALSE, "stored, NLEN wrong"),
      Body(<<1, 1, 1>>, <<>>, FALSE, "reserved"),
      Body(StoredBits(<<>>, 0, <<104>>, TRUE) \o <<0, 1, 1>>, <<104>>, FALSE,
           "stored, reserved"),
      Body(FixedBits(<<>>, 1, RfcFixedLitLen(97) \o RfcFixedLitLen(256)),
           <<97>>, TRUE, "fixed"),
      Body(FixedBits(<<>>, 1, RfcFixedLitLen(97) \o RfcFixedLitLen(257)
                                  \o RfcFixedDist(0) \o RfcFixedLitLen(256)),
           <<97, 97, 97, 97>>, TRUE, "fixed"),
      Body(DynBits(<<>>, 1, DynLengths, DynA \o DynA \o DynCopy3Dist1 \o DynEob),
           <<97, 97, 97, 97, 97>>, TRUE, "dynamic"),
      Body(DynBits(<<>>, 1, DynLengths, DynA \o DynCopy3Dist1 \o DynEob),
           <<97, 97, 97, 97>>, TRUE, "dynamic, distance = bytes so far"),
      Body(StoredBits(DynBits(<<>>, 0, DynLengths, DynA \o DynA \o DynEob),
                      1, <<104, 105>>, TRUE),
           <<97, 97, 104, 105>>, TRUE, "dynamic, stored"),
      Body(DynBits(<<>>, 1, DynLengthsOverrun, DynA \o DynEob),
           <<>>, FALSE, "dynamic, lengths overrun"),
      Copy3Body, Copy6Body, CopyFirstBody,
      ReservedBody(287), ReservedBody(288), CrowdedReservedBody }

\* A member header of RFC 1952 with the flag byte flg, MTIME 0x04030201,
\* XFL 0, OS 3, the optional fields the flags ask for, and, with FHCRC, the
\* low 16 bits of the CRC-32 of every byte before it, plus `off`.
GzFields(flg, extra, name, comment) ==
    <<31, 139, 8, flg, 1, 2, 3, 4, 0, 3>>
        \o (IF (flg \div 4) % 2 = 1 THEN U16ToLe(Len(extra)) \o extra ELSE <<>>)
        \o (IF (flg \div 8) % 2 = 1 THEN name \o <<0>> ELSE <<>>)
        \o (IF (flg \div 16) % 2 = 1 THEN comment \o <<0>> ELSE <<>>)
GzHeader(flg, extra, name, comment, off) ==
    [bytes |-> GzFields(flg, extra, name, comment)
                   \o (IF (flg \div 2) % 2 = 1
                       THEN U16ToLe((Crc32(GzFields(flg, extra, name, comment)).lo + off)
                                        % 65536)
                       ELSE <<>>),
     hcrc |-> IF (flg \div 2) % 2 = 0 THEN "none" ELSE IF off = 0 THEN "good" ELSE "bad",
     flg |-> flg]
PlainHeader == GzHeader(0, <<>>, <<>>, <<>>, 0)
Headers ==
    { GzHeader(flg, <<1, 2>>, <<97>>, <<104, 105>>, off) :
          flg \in {0, 1, 2, 4, 6, 8, 10, 16, 18, 31, 32, 34}, off \in {0, 1} }
        \cup { GzHeader(8, <<>>, <<255>>, <<>>, 0) }

\* The trailer of a member: CRC-32 and ISIZE of the data, each right or off
\* by one
Trailers == {"good", "crc wrong", "size wrong", "both wrong"}
Bump(x) == U32(x.hi, (x.lo + 1) % 65536)
GzTrailer(payload, t) ==
    U32ToLe(IF t \in {"crc wrong", "both wrong"}
            THEN Bump(Crc32(payload)) ELSE Crc32(payload))
        \o U32ToLe(IF t \in {"size wrong", "both wrong"}
                   THEN Bump(U32(0, Len(payload))) ELSE U32(0, Len(payload)))

\* A member, with what it is: well-formed or not, its data, its parts
Member(hd, bd, t) ==
    [bytes |-> hd.bytes \o PackBits(PadToByte(bd.bits)) \o GzTrailer(bd.payload, t),
     valid |-> bd.ok /\ hd.hcrc # "bad" /\ hd.flg < 32 /\ t = "good",
     payload |-> bd.payload, hcrc |-> hd.hcrc, flg |-> hd.flg,
     kind |-> bd.kind, trailer |-> t]
StoredHi == Body(StoredBits(<<>>, 1, <<104, 105>>, TRUE), <<104, 105>>, TRUE, "stored")
Members ==
    { Member(PlainHeader, bd, "good") : bd \in Bodies }
        \cup { Member(hd, StoredHi, "good") : hd \in Headers }
        \cup { Member(PlainHeader, bd, t) : bd \in {b \in Bodies : b.kind \in {"stored", "dynamic"}},
                                           t \in Trailers }

\* The inputs: one member; two members; a member and bytes that begin no
\* member; and every proper prefix of some of these.
What(m) == [valid |-> m.valid, payload |-> m.payload, hcrc |-> m.hcrc, flg |-> m.flg,
            kind |-> m.kind, trailer |-> m.trailer]
Stream(bytes, ms, junk, whole) ==
    [input |-> bytes, given |-> [members |-> ms, junk |-> junk, whole |-> whole]]
One(m) == Stream(m.bytes, <<What(m)>>, <<>>, TRUE)
Two(m, n) == Stream(m.bytes \o n.bytes, <<What(m), What(n)>>, <<>>, TRUE)
WithJunk(m, junk) == Stream(m.bytes \o junk, <<What(m)>>, junk, TRUE)
Prefixes(s) ==
    { Stream(SubSeq(s.input, 1, k), s.given.members, s.given.junk, FALSE) :
          k \in 0..(Len(s.input) - 1) }
Firsts == { m \in Members : m.valid /\ m.flg = 0 /\ m.kind \in {"stored", "dynamic"} }
Seconds == { m \in Members : m.flg = 0 /\ m.kind = "stored" /\ m.payload # <<>> }
Junks == { <<0>>, <<31>>, <<31, 0>>, <<31, 139>>, <<31, 139, 7>> }
AllFields == Member(GzHeader(31, <<1, 2>>, <<97>>, <<104, 105>>, 0), StoredHi, "good")
Streams ==
    { One(m) : m \in Members }
        \cup { Two(m, n) : m \in Firsts, n \in Seconds }
        \cup { WithJunk(m, j) : m \in Firsts, j \in Junks }
        \cup { Stream(j, <<>>, j, TRUE) : j \in Junks }
        \cup UNION { Prefixes(One(m)) : m \in {AllFields} \cup {f \in Firsts : f.kind = "dynamic"} }
        \cup Prefixes(Two(Member(PlainHeader, StoredHi, "good"),
                          Member(PlainHeader, StoredHi, "good")))
        \cup Prefixes(One(Member(PlainHeader, CopyFirstBody, "good")))

Init ==
    /\ \E s \in Streams : input = s.input /\ given = s.given
    /\ io_fail \in BOOLEAN
    /\ overflow_checks \in BOOLEAN
    /\ pc = "peek" /\ result = "running" /\ member = 0 /\ pos = 0
    /\ remainder = BitSeq(0, 0) /\ reached_last = FALSE
    /\ block = NoBlock /\ coding = NoCoding /\ tree = NoTree
    /\ history = WriterNew.history
    /\ byte_count = WriterNew.byte_count
    /\ digest = WriterNew.digest
    /\ out = <<>>
    /\ last = NoLast

Frame == UNCHANGED <<input, io_fail, given, overflow_checks>>

\* An error that also takes back what the sink was given.
StopAndClear(op, e) ==
    /\ pc' = "done" /\ result' = e
    /\ last' = [op |-> op, err |-> e]
    /\ out' = <<>>
    /\ UNCHANGED <<member, pos, remainder, reached_last, block, coding, tree,
                   history, byte_count, digest>>

\* An error is returned (with `?`, bail! or ensure!): the call is over.
Stop(op, e) ==
    /\ pc' = "done" /\ result' = e
    /\ last' = [op |-> op, err |-> e]
    /\ UNCHANGED <<member, pos, remainder, reached_last, block, coding, tree,
                   history, byte_count, digest, out>>

\* lib.rs, decompress: `while let Ok(buf) = input.fill_buf()` and the break
FillBuf(p) == IF p < Len(input) THEN "data" ELSE IF io_fail THEN "IoError" ELSE "empty"
DriverPeek ==
    /\ pc = "peek"
    /\ IF FillBuf(pos) = "data"
       THEN pc' = "header" /\ member' = member + 1 /\ result' = result
       ELSE pc' = "done" /\ member' = member /\ result' = "Ok"
    /\ last' = [op |-> "fill_buf", err |-> IF FillBuf(pos) = "IoError" THEN "IoError" ELSE ""]
    /\ UNCHANGED <<pos, remainder, reached_last, block, coding, tree,
                   history, byte_count, digest, out>>
    /\ Frame

\* GzipReader::decompress: parse_header, DeflateReader::new(BitReader::new(..)),
\* and the TrackingWriter::new that opens deflate
GzParseHeaderOf(r) ==
    IF r.err # "" THEN Stop("parse_header", r.err)
    ELSE /\ pos' = r.pos /\ pc' = "next_block"
         /\ remainder' = BitSequenceNew(0, 0) /\ reached_last' = FALSE
         /\ TWSet(WriterNew)
         /\ last' = [op |-> "parse_header", err |-> ""]
         /\ UNCHANGED <<result, member, block, coding, tree, out>>
GzParseHeader == pc = "header" /\ GzParseHeaderOf(ParseHeader(pos)) /\ Frame

\* A next_block that does not note the final block.
NextBlockForgetsFinal(b1, b2) ==
    IF b1.err # "" THEN Stop("next_block", b1.err)
    ELSE IF b2.err # "" THEN Stop("next_block", b2.err)
    ELSE IF b2.val.bits = 3 THEN Stop("next_block", "BadBlockType")
    ELSE /\ pos' = b2.pos /\ remainder' = b2.rem
         /\ reached_last' = reached_last
         /\ block' = [is_final |-> b1.val.bits = 1, compression_type |-> b2.val.bits]
         /\ pc' = IF b2.val.bits = 0 THEN "stored"
                  ELSE IF b2.val.bits = 1 THEN "fixed" ELSE "dynamic"
         /\ last' = [op |-> "next_block", err |-> ""]
         /\ UNCHANGED <<result, member, coding, tree, history, byte_count, digest, out>>

\* DeflateReader::next_block, and the test for the reserved type in deflate
NextBlockOf(b1, b2) ==
    IF b1.err # "" THEN Stop("next_block", b1.err)
    ELSE IF b2.err # "" THEN Stop("next_block", b2.err)
    ELSE IF b2.val.bits = 3 THEN Stop("next_block", "BadBlockType")
    ELSE /\ pos' = b2.pos /\ remainder' = b2.rem
         /\ reached_last' = (reached_last \/ b1.val.bits = 1)
         /\ block' = [is_final |-> b1.val.bits = 1, compression_type |-> b2.val.bits]
         /\ pc' = IF b2.val.bits = 0 THEN "stored"
                  ELSE IF b2.val.bits = 1 THEN "fixed" ELSE "dynamic"
         /\ last' = [op |-> "next_block", err |-> ""]
         /\ UNCHANGED <<result, member, coding, tree, history, byte_count, digest, out>>
NextBlockAfter(b1) == NextBlockOf(b1, ReadBits(b1.pos, b1.rem, 2, overflow_checks))
NextBlock ==
    /\ pc = "next_block"
    /\ IF reached_last
       THEN /\ pc' = "trailer"
            /\ last' = [op |-> "next_block", err |-> ""]
            /\ UNCHANGED <<result, member, pos, remainder, reached_last, block, coding,
                           tree, history, byte_count, digest, out>>
       ELSE NextBlockAfter(ReadBits(pos, remainder, 1, overflow_checks))
    /\ Frame

\* deflate, a stored block: borrow_reader_from_boundary, LEN, NLEN,
\* read_exact, write_all (one write: the sink takes every byte)
StoredData(br, p, data) ==
    IF data.err # "" THEN Stop("stored", data.err)
    ELSE /\ pos' = data.pos /\ remainder' = br.rem
         /\ TWSet(WriterWrite(W, data.bytes, Len(data.bytes)))
         /\ out' = out \o data.bytes
         /\ pc' = "next_block"
         /\ last' = [op |-> "stored", err |-> ""]
         /\ UNCHANGED <<result, member, reached_last, block, coding, tree>>
StoredOf(br, len, nlen) ==
    IF br.err # "" THEN Stop("stored", br.err)
    ELSE IF len.err # "" THEN Stop("stored", len.err)
    ELSE IF nlen.err # "" THEN Stop("stored", nlen.err)
    ELSE IF U16FromLe(len.bytes) # Not16(U16FromLe(nlen.bytes))
    THEN Stop("stored", "BadStoredHeader")
    ELSE StoredData(br, nlen.pos, ReadExact(nlen.pos, U16FromLe(len.bytes)))
StoredBlock ==
    /\ pc = "stored"
    /\ StoredOf(BorrowReaderFromBoundary(remainder, overflow_checks),
                ReadExact(pos, 2), ReadExact(pos + 2, 2))
    /\ Frame

\* deflate, BTYPE = 01: get_fixed_coding()?
FixedTreesOf(r) ==
    IF r.err # "" THEN Stop("get_fixed_coding", r.err)
    ELSE /\ coding' = [litlen |-> r.litlen, dist |-> r.dist]
         /\ pc' = "symbol"
         /\ last' = [op |-> "get_fixed_coding", err |-> ""]
         /\ UNCHANGED <<result, member, pos, remainder, reached_last, block, tree,
                        history, byte_count, digest, out>>
FixedTrees == pc = "fixed" /\ FixedTreesOf(GetFixedCoding) /\ Frame

\* decode_litlen_distance_trees, up to the code-length code:
\* HLIT, HDIST, HCLEN, tree_len, from_lengths(&tree_len)
DynTreeCode(hlit, hdist, tl, tc) ==
    IF tl.err # "" THEN Stop("tree_code", tl.err)
    ELSE IF tc.err # "" THEN Stop("tree_code", tc.err)
    ELSE /\ pos' = tl.pos /\ remainder' = tl.rem
         /\ tree' = [hlit |-> hlit, hdist |-> hdist, tree_code |-> tc.map,
                     code_lengths |-> <<>>]
         /\ pc' = "code_lengths"
         /\ last' = [op |-> "tree_code", err |-> ""]
         /\ UNCHANGED <<result, member, reached_last, block, coding,
                        history, byte_count, digest, out>>
DynTreeLen(hlit, hdist, tl) ==
    DynTreeCode(hlit, hdist, tl,
                IF tl.err # "" THEN CodingErr(tl.err)
                ELSE FromLengths(tl.tree_len, "TreeCode", overflow_checks))
DynHclen(hlit, hdist, hclen) ==
    IF hclen.err # "" THEN Stop("tree_code", hclen.err)
    ELSE IF hclen.val.bits + 4 > 19 THEN Stop("tree_code", "BadTree")
    ELSE DynTreeLen(hlit.val.bits + 257, hdist.val.bits + 1,
                    ReadTreeLen(hclen.pos, hclen.rem, 0, hclen.val.bits + 4,
                                Repeat(0, 19), overflow_checks))
DynHdist(hlit, hdist) ==
    IF hdist.err # "" THEN Stop("tree_code", hdist.err)
    ELSE DynHclen(hlit, hdist, ReadBits(hdist.pos, hdist.rem, 4, overflow_checks))
DynHlit(hlit) ==
    IF hlit.err # "" THEN Stop("tree_code", hlit.err)
    ELSE DynHdist(hlit, ReadBits(hlit.pos, hlit.rem, 5, overflow_checks))
DynamicTreeCode ==
    /\ pc = "dynamic"
    /\ DynHlit(ReadBits(pos, remainder, 5, overflow_checks))
    /\ Frame

\* A turn of that loop that takes nothing from the reader and adds nothing.
CodeLengthsStuck(r, lengths) ==
    /\ last' = [op |-> "code_length", err |-> ""]
    /\ UNCHANGED <<result, member, pos, remainder, reached_last, block, coding, tree, pc,
                   history, byte_count, digest, out>>

\* decode_litlen_distance_trees: one turn of the loop that fills code_lengths,
\* with the test that ends it
CodeLengthsNow(r, lengths) ==
    /\ pos' = r.pos /\ remainder' = r.rem
    /\ tree' = [tree EXCEPT !.code_lengths = lengths]
    /\ pc' = IF Len(lengths) = tree.hlit + tree.hdist THEN "build" ELSE "code_lengths"
    /\ last' = [op |-> "code_length", err |-> ""]
    /\ UNCHANGED <<result, member, reached_last, block, coding,
                   history, byte_count, digest, out>>
\* A CopyPrev that makes three copies whatever the extra bits say.
CopyPrevThrice(b) ==
    IF b.err # "" THEN Stop("code_length", b.err)
    ELSE IF tree.code_lengths = <<>> THEN Stop("code_length", "BadTree")
    ELSE CodeLengthsNow(b, tree.code_lengths
                               \o Repeat(tree.code_lengths[Len(tree.code_lengths)], 3))
CopyPrevOf(b) ==
    IF b.err # "" THEN Stop("code_length", b.err)
    ELSE IF tree.code_lengths = <<>> THEN Stop("code_length", "BadTree")
    ELSE CodeLengthsNow(b, tree.code_lengths
                               \o Repeat(tree.code_lengths[Len(tree.code_lengths)],
                                         b.val.bits + 3))
RepeatZeroOf(b, base) ==
    IF b.err # "" THEN Stop("code_length", b.err)
    ELSE CodeLengthsNow(b, tree.code_lengths \o Repeat(0, base + b.val.bits))
CodeLengthOf(code) ==
    IF code.err # "" THEN Stop("code_length", code.err)
    ELSE IF code.tok.kind = "Length"
    THEN CodeLengthsNow(code, Append(tree.code_lengths, code.tok.base))
    ELSE IF code.tok.kind = "CopyPrev"
    THEN CopyPrevOf(ReadBits(code.pos, code.rem, 2, overflow_checks))
    ELSE RepeatZeroOf(ReadBits(code.pos, code.rem, code.tok.extra_bits, overflow_checks),
                      code.tok.base)
CodeLengthStep ==
    /\ pc = "code_lengths"
    /\ CodeLengthOf(ReadSymbol(tree.tree_code, pos, remainder, overflow_checks))
    /\ Frame

\* decode_litlen_distance_trees: split_at(hlit) and the two from_lengths
BuildTreesOf(lit, dist) ==
    IF lit.err # "" THEN Stop("build_trees", lit.err)
    ELSE IF dist.err # "" THEN Stop("build_trees", dist.err)
    ELSE /\ coding' = [litlen |-> lit.map, dist |-> dist.map]
         /\ pc' = "symbol"
         /\ last' = [op |-> "build_trees", err |-> ""]
         /\ UNCHANGED <<result, member, pos, remainder, reached_last, block, tree,
                        history, byte_count, digest, out>>
BuildTrees ==
    /\ pc = "build"
    /\ BuildTreesOf(FromLengths(SubSeq(tree.code_lengths, 1, tree.hlit),
                                "LitLen", overflow_checks),
                    FromLengths(SubSeq(tree.code_lengths, tree.hlit + 1,
                                       Len(tree.code_lengths)),
                                "Distance", overflow_checks))
    /\ Frame

\* deflate: one turn of the symbol loop
ExtraBits(p, rem, n) ==
    IF n # 0 THEN ReadBits(p, rem, n, overflow_checks) ELSE RdOk(BitSeq(0, 0), p, rem)
SymbolWritten(r, w, bytes, op, to) ==
    /\ pos' = r.pos /\ remainder' = r.rem
    /\ TWSet(w)
    /\ out' = out \o bytes
    /\ pc' = to
    /\ last' = op
    /\ UNCHANGED <<result, member, reached_last, block, coding, tree>>
CopyOf(ed, wp, dist, len) ==
    IF wp.err # "" THEN Stop("write_previous", wp.err)
    ELSE SymbolWritten(ed, wp.w, wp.chunk,
                       [op |-> "write_previous", err |-> "", dist |-> dist, len |-> len],
                       "symbol")
CopyDist(d, ed, len) ==
    IF ed.err # "" THEN Stop("symbol", ed.err)
    ELSE CopyOf(ed, WritePrevious(W, d.tok.base + ed.val.bits, len, len),
                d.tok.base + ed.val.bits, len)
CopyDistSymbol(d, len) ==
    IF d.err # "" THEN Stop("symbol", d.err)
    ELSE CopyDist(d, ExtraBits(d.pos, d.rem, d.tok.extra_bits), len)
CopyLen(sym, el) ==
    IF el.err # "" THEN Stop("symbol", el.err)
    ELSE CopyDistSymbol(ReadSymbol(coding.dist, el.pos, el.rem, overflow_checks),
                        sym.tok.base + el.val.bits)
SymbolOf(sym) ==
    IF sym.err # "" THEN Stop("symbol", sym.err)
    ELSE IF sym.tok.kind = "Literal"
    THEN SymbolWritten(sym, WriterWrite(W, <<sym.tok.base>>, 1), <<sym.tok.base>>,
                       [op |-> "literal", err |-> ""], "symbol")
    ELSE IF sym.tok.kind = "EndOfBlock"
    THEN SymbolWritten(sym, W, <<>>, [op |-> "end_of_block", err |-> ""], "next_block")
    ELSE CopyLen(sym, ExtraBits(sym.pos, sym.rem, sym.tok.extra_bits))
SymbolStep ==
    /\ pc = "symbol"
    /\ SymbolOf(ReadSymbol(coding.litlen, pos, remainder, overflow_checks))
    /\ Frame

\* The end of deflate (byte_count().try_into()?, crc32()) and the end of
\* GzipReader::decompress: the trailer is read and compared
ActualSize == U32(byte_count \div 65536, byte_count % 65536)
ActualCrc == DigestFinalize(digest)
TrailerRead(crc, size, check) ==
    /\ last' = [op |-> "trailer", err |-> check,
                data_crc32 |-> crc, data_size |-> size,
                actual_crc |-> ActualCrc, actual_size |-> ActualSize]
    /\ IF check # ""
       THEN pc' = "done" /\ result' = check /\ pos' = pos
       ELSE pc' = "peek" /\ result' = result /\ pos' = pos + 8
    /\ UNCHANGED <<member, remainder, reached_last, block, coding, tree,
                   history, byte_count, digest, out>>
TrailerOf(crc, size) ==
    IF byte_count \div 65536 > 65535 THEN Stop("trailer", "TryFromIntError")
    ELSE IF crc.err # "" THEN Stop("trailer", crc.err)
    ELSE IF size.err # "" THEN Stop("trailer", size.err)
    ELSE TrailerRead(U32FromLe(crc.bytes), U32FromLe(size.bytes),
                     TrailerCheck(U32FromLe(crc.bytes), U32FromLe(size.bytes),
                                  ActualCrc, ActualSize))
Trailer ==
    /\ pc = "trailer"
    /\ TrailerOf(ReadExact(pos, 4), ReadExact(pos + 4, 4))
    /\ Frame

Next ==
    \/ DriverPeek
    \/ GzParseHeader
    \/ NextBlock
    \/ StoredBlock
    \/ FixedTrees
    \/ DynamicTreeCode
    \/ CodeLengthStep
    \/ BuildTrees
    \/ SymbolStep
    \/ Trailer

Spec == Init /\ [][Next]_vars

(* Claims about the whole call, checked under Spec                         *)

\* The data of the members of the input, one after the other
RECURSIVE Payloads(_, _)
Payloads(ms, i) == IF i > Len(ms) THEN <<>> ELSE ms[i].payload \o Payloads(ms, i + 1)

\* The input is one or more well-formed members and nothing else, and the
\* reader ends after them without an error.
ValidInput ==
    /\ given.whole /\ given.junk = <<>> /\ ~io_fail
    /\ Len(given.members) >= 1
    /\ \A i \in 1..Len(given.members) : given.members[i].valid

\* C1: on an input of n >= 1 concatenated valid members and nothing else,
\* decompress returns Ok and the sink has received the members' data in
\* order, nothing between them.
C1_ValidMembersDecompress ==
    (ValidInput /\ pc = "done")
        => (result = "Ok" /\ out = Payloads(given.members, 1))

\* The bytes written to the sink for the member being read
MemberBytes == SubSeq(out, Len(out) - byte_count + 1, Len(out))
TrailerCompared == last.op = "trailer" /\ "data_size" \in DOMAIN last
CrcAgrees == last.data_crc32 = Crc32(MemberBytes)
SizeAgrees == last.data_size = U32(byte_count \div 65536, byte_count % 65536)

\* C2, as the code has it: once the trailer is read, the member ends Ok
\* exactly if its CRC-32 is that of the bytes written for the member and its
\* ISIZE their number; a length that disagrees fails with LengthMismatch
\* (whatever the CRC), and a CRC that disagrees, the length agreeing, fails
\* with CrcMismatch.
C2_TrailerLengthThenCrc ==
    TrailerCompared
        => /\ (last.err = "") <=> (CrcAgrees /\ SizeAgrees)
           /\ ~SizeAgrees => last.err = "LengthMismatch"
           /\ (SizeAgrees /\ ~CrcAgrees) => last.err = "CrcMismatch"

\* C2 happens: a trailer with both fields wrong was read, and the member
\* failed with LengthMismatch.
C2_BothWrongSeen ==
    /\ TrailerCompared /\ ~SizeAgrees /\ ~CrcAgrees
    /\ result = "LengthMismatch"

\* C2 as stated: every CRC disagreement fails with CrcMismatch and every
\* length disagreement with LengthMismatch.
C2_EachMismatchItsOwnError ==
    TrailerCompared
        => /\ (last.err = "") <=> (CrcAgrees /\ SizeAgrees)
           /\ ~CrcAgrees => last.err = "CrcMismatch"
           /\ ~SizeAgrees => last.err = "LengthMismatch"

\* C4: for a block with BTYPE = 01 the pair of fixed decoders is obtained and
\* the symbol loop of the block is entered.
C4_FixedPairObtained ==
    last.op = "get_fixed_coding" => (last.err = "" /\ pc = "symbol")

\* C7: when the reader has reported an I/O error, to the driver's peek
\* included, decompress is over and has not returned Ok.
C7_IoErrorSurfaced ==
    last.err = "IoError" => (pc = "done" /\ result \notin {"Ok", "running"})

\* C8: a header with FHCRC whose CRC16 is the low 16 bits of the CRC-32 of
\* the header bytes before it is accepted, whatever other fields it has, and
\* one with another value fails with BadHeaderCrc.
C8_HeaderCrcOverBytesRead ==
    (last.op = "parse_header" /\ given.whole /\ member = 1 /\ given.members # <<>>)
        => /\ given.members[1].hcrc = "good" => last.err = ""
           /\ given.members[1].hcrc = "bad" => last.err = "BadHeaderCrc"

\* C10: a run that takes the vector of code lengths past HLIT + HDIST fails
\* with BadTree at that step; no further code-length symbol is read.
C10_OverrunIsBadTree ==
    (last.op = "code_length" /\ Len(tree.code_lengths) > tree.hlit + tree.hdist)
        => (pc = "done" /\ result = "BadTree")

\* The call has returned an error
Failed == pc = "done" /\ result # "Ok"
IsPrefix(a, b) == Len(a) <= Len(b) /\ a = SubSeq(b, 1, Len(a))
\* the data of the first n members of the input
PayloadsUpTo(n) == Payloads(SubSeq(given.members, 1, Min(n, Len(given.members))), 1)

\* The step that returns the error writes nothing, and nothing is written
\* after it.
C18_ErrorStep ==
    /\ (result = "running" /\ result' \notin {"running", "Ok"}) => out' = out
    /\ result \notin {"running", "Ok"} => (out' = out /\ result' = result)
\* When the call has failed the sink holds the data of the members before
\* the failing one, then data of the failing one in order, and nothing else;
\* when it failed at the trailer, all the data of the failing one.
C18_SinkAtError ==
    Failed => /\ IsPrefix(PayloadsUpTo(member - 1), out)
              /\ IsPrefix(out, PayloadsUpTo(member))
              /\ last.op = "trailer" => out = PayloadsUpTo(member)

\* C18: decompression stops at the first error, the sink keeping exactly
\* what was decoded before it; a member whose data is valid and whose
\* trailer CRC is wrong has all its data in the sink when CrcMismatch is
\* returned.
C18_StopsAtFirstError == [][C18_ErrorStep]_vars /\ []C18_SinkAtError

\* C18 happens: the second member's trailer CRC was wrong; CrcMismatch was
\* returned with the data of both members in the sink.
C18_CrcMismatchAfterAllBytes ==
    /\ result = "CrcMismatch" /\ member = 2
    /\ Len(given.members) = 2 /\ given.members[2].payload # <<>>
    /\ out = given.members[1].payload \o given.members[2].payload

\* parse_header has failed on the member that starts at pos: the bytes that
\* are left for it, and what its first three bytes are
HeaderFailed == last.op = "parse_header" /\ last.err # ""
Avail == Len(input) - pos
ByteIs(i, b) == Avail >= i /\ input[pos + i] = b
ByteIsNot(i, b) == Avail >= i /\ input[pos + i] # b
MagicWrong == ByteIsNot(1, 31) \/ (ByteIs(1, 31) /\ ByteIsNot(2, 139))
MethodWrong == ByteIs(1, 31) /\ ByteIs(2, 139) /\ ByteIsNot(3, 8)
StartCutShort == Avail < 3 /\ ~MagicWrong
TrailingBytes == member >= 2 /\ given.junk # <<>>

\* C19, as the code has it: a member whose first byte is not 1f, or whose
\* second is not 8b, fails with BadMagic; one that starts 1f 8b with a third
\* byte other than 8 fails with UnsupportedMethod; one that ends within
\* these bytes fails with the reader's error; nothing of the member is
\* written.  Trailing bytes after a valid member fail in one of these ways.
C19_MemberStartChecked ==
    HeaderFailed
        => /\ out = PayloadsUpTo(member - 1)
           /\ MagicWrong => result = "BadMagic"
           /\ MethodWrong => result = "UnsupportedMethod"
           /\ StartCutShort => result = EndErr
           /\ TrailingBytes => (MagicWrong \/ MethodWrong \/ StartCutShort)

\* C19 happens: after a valid member came 1f 8b 07; the call failed with
\* UnsupportedMethod, the first member's data in the sink.
C19_TrailingBytesWithMagic ==
    /\ HeaderFailed /\ TrailingBytes /\ MethodWrong
    /\ result = "UnsupportedMethod" /\ out # <<>>

\* C19 as stated: two first bytes that are not 1f 8b fail with BadMagic, a
\* third byte that is not 8 with UnsupportedMethod, nothing of the member
\* written; and trailing bytes that begin no valid member, before a reader
\* that ends, always fail with BadMagic.
C19_TrailingBytesAreBadMagic ==
    HeaderFailed
        => /\ out = PayloadsUpTo(member - 1)
           /\ (Avail >= 2 /\ MagicWrong) => result = "BadMagic"
           /\ MethodWrong => result = "UnsupportedMethod"
           /\ (TrailingBytes /\ ~io_fail) => result = "BadMagic"

(* SpecSize: the end of a long member.  byte_count is a usize; here it is   *)
(* kept as [hi, lo] with lo < 2^16 (the value is 65536 * hi + lo), so that  *)
(* counts of 2^32 and more can be held.  The state is a TrackingWriter that *)
(* has taken given.written bytes so far (the bytes themselves are not kept: *)
(* `out` stays empty, the history is a full window, the digest is some      *)
(* register), a few more writes, and then the end of deflate and the        *)
(* trailer.  given.usize_bits is the width of usize on the target.          *)

MaxSizeWrites == 2

Usize(h, l) == [hi |-> h, lo |-> l]
UsizeSum(c, n) == Usize(c.hi + (c.lo + n) \div 65536, (c.lo + n) % 65536)
\* the largest hi of a usize of the given width
UsizeMaxHi(bits) == IF bits = 32 THEN 65535 ELSE 2147483647

\* self.byte_count += written_len
UsizeAdd(c, n, bits, oc) ==
    IF UsizeSum(c, n).hi <= UsizeMaxHi(bits) THEN [err |-> "", v |-> UsizeSum(c, n)]
    ELSE IF oc THEN [err |-> "Panic", v |-> c]
    ELSE [err |-> "", v |-> Usize(UsizeSum(c, n).hi % 65536, UsizeSum(c, n).lo)]

\* writer.byte_count().try_into()? : usize to u32
TryIntoU32(c) ==
    IF c.hi > 65535 THEN [err |-> "TryFromIntError", v |-> U32(0, 0)]
    ELSE [err |-> "", v |-> U32(c.hi, c.lo)]

\* N mod 2^32, as a u32
Mod32(c) == U32(c.hi % 65536, c.lo)

SizeStarts == { Usize(0, 32768), Usize(65535, 65534), Usize(65535, 65535),
                Usize(65536, 0), Usize(131071, 65535) }
SizeDigests == { DigestNew, U32(4660, 22136) }
SizeBuffers == { <<7>>, <<1, 2>> }

SizeInit ==
    /\ input = <<>> /\ io_fail = FALSE
    /\ overflow_checks \in BOOLEAN
    /\ \E bits \in {32, 64} : \E c \in SizeStarts :
           /\ c.hi <= UsizeMaxHi(bits)
           /\ given = [members |-> <<>>, junk |-> <<>>, whole |-> TRUE,
                       usize_bits |-> bits, written |-> c]
           /\ byte_count = c
    /\ pc = "size_write" /\ result = "running" /\ member = 1 /\ pos = 0
    /\ remainder = BitSeq(0, 0) /\ reached_last = TRUE
    /\ block = NoBlock /\ coding = NoCoding /\ tree = NoTree
    /\ history = LongBuffer(HISTORY_SIZE)
    /\ digest \in SizeDigests
    /\ out = <<>>
    /\ last = NoLast

\* writer.write(buf), every byte accepted
SizeWriteOf(buf, c) ==
    /\ IF c.err # ""
       THEN /\ pc' = "done" /\ result' = c.err
            /\ last' = [op |-> "write", err |-> c.err, step |-> last.step + 1]
            /\ UNCHANGED <<history, byte_count, digest>>
       ELSE /\ pc' = pc /\ result' = result
            /\ last' = [op |-> "write", err |-> "", step |-> last.step + 1]
            /\ history' = HistoryAfter(history, buf)
            /\ byte_count' = c.v
            /\ digest' = DigestUpdate(digest, buf)
    /\ given' = [given EXCEPT !.written = UsizeSum(@, Len(buf))]
    /\ UNCHANGED <<input, io_fail, overflow_checks, member, pos, remainder, reached_last,
                   block, coding, tree, out>>

SizeWrite ==
    /\ pc = "size_write" /\ last.step < MaxSizeWrites
    /\ \E buf \in SizeBuffers :
           SizeWriteOf(buf, UsizeAdd(byte_count, Len(buf), given.usize_bits, overflow_checks))

\* The end of deflate and the trailer, the reader delivering the eight bytes
\* of data_crc32 and data_size
SizeTrailerOf(actual_size, data_crc32, data_size) ==
    /\ pc' = "done"
    /\ result' = IF actual_size.err # "" THEN actual_size.err
                 ELSE IF TrailerCheck(data_crc32, data_size, ActualCrc, actual_size.v) = ""
                 THEN "Ok"
                 ELSE TrailerCheck(data_crc32, data_size, ActualCrc, actual_size.v)
    /\ last' = [op |-> "trailer",
                err |-> IF actual_size.err # "" THEN actual_size.err
                        ELSE TrailerCheck(data_crc32, data_size, ActualCrc, actual_size.v),
                step |-> last.step,
                data_crc32 |-> data_crc32, data_size |-> data_size]
    /\ UNCHANGED <<input, io_fail, given, overflow_checks, member, pos, remainder,
                   reached_last, block, coding, tree, history, byte_count, digest, out>>

SizeTrailer ==
    /\ pc = "size_write"
    /\ \E data_crc32 \in {ActualCrc, Bump(ActualCrc)} :
       \E data_size \in {Mod32(given.written), Bump(Mod32(given.written))} :
           SizeTrailerOf(TryIntoU32(byte_count), data_crc32, data_size)

SizeNext == SizeWrite \/ SizeTrailer

SpecSize == SizeInit /\ [][SizeNext]_vars

\* C11: a member of N bytes, N >= 2^32 included, whose trailer has
\* ISIZE = N mod 2^32 and the right CRC-32 passes the check of the trailer.
C11_IsizeModulo ==
    (last.op = "trailer" /\ last.data_size = Mod32(given.written)
                         /\ last.data_crc32 = ActualCrc)
        => last.err = ""

(* SpecBR: a fresh BitReader over a byte stream, and read_bits calls on it  *)

MaxStreamLen == 3   \* the longest byte stream
MaxReads == 3       \* read_bits calls on one BitReader

\* 0x35 and 0xc8: neither reads the same in both bit orders
StreamBytes == {53, 200}
ByteStreams == SeqsOver(StreamBytes, MaxStreamLen)
\* the lengths read_bits takes: assert!(len <= 16 && len != 0)
ReadLens == 1..16

BRInit ==
    /\ input \in ByteStreams /\ io_fail \in BOOLEAN /\ given = NoGiven
    /\ overflow_checks \in BOOLEAN
    /\ pc = "bit_reader" /\ result = "running" /\ member = 0 /\ pos = 0
    /\ remainder = BitSequenceNew(0, 0) /\ reached_last = FALSE
    /\ block = NoBlock /\ coding = NoCoding /\ tree = NoTree
    /\ history = WriterNew.history
    /\ byte_count = WriterNew.byte_count
    /\ digest = WriterNew.digest
    /\ out = <<>>
    /\ last = [op |-> "new", err |-> "", step |-> 0, k |-> 0, val |-> BitSeq(0, 0),
               before |-> 0, delivered |-> 0]

\* bit_reader.read_bits(k); `before` and `delivered` count the bits that the
\* successful calls have returned, before and after this one
BRReadBitsOf(r, k) ==
    /\ pos' = r.pos /\ remainder' = r.rem
    /\ pc' = IF r.err = "" THEN pc ELSE "done"
    /\ result' = IF r.err = "" THEN result ELSE r.err
    /\ last' = [op |-> "read_bits", err |-> r.err, step |-> last.step + 1, k |-> k,
                val |-> r.val, before |-> last.delivered,
                delivered |-> IF r.err = "" THEN last.delivered + k ELSE last.delivered]
    /\ UNCHANGED <<input, io_fail, given, overflow_checks, member, reached_last, block,
                   coding, tree, history, byte_count, digest, out>>

BRReadBits ==
    /\ pc = "bit_reader" /\ last.step < MaxReads
    /\ \E k \in ReadLens : BRReadBitsOf(ReadBits(pos, remainder, k, overflow_checks), k)

BRNext == BRReadBits

SpecBR == BRInit /\ [][BRNext]_vars

(* Claims about BitReader, checked under SpecBR                            *)

\* Stream bit number 8 * b + i is bit i of input byte b (bytes from 0), and
\* the k stream bits from number d on, bit d lowest, as a number
StreamBit(n) == (input[n \div 8 + 1] \div Pow2(n % 8)) % 2
RECURSIVE StreamValue(_, _)
StreamValue(d, k) == IF k = 0 THEN 0 ELSE StreamBit(d) + 2 * StreamValue(d + 1, k - 1)
UnreadBits == remainder.len + 8 * (Len(input) - pos)

\* C12: each successful read_bits(k) returns a BitSequence of length k whose
\* bit t is the stream bit number (bits delivered before the call) + t.
C12_ReadBitsInStreamOrder ==
    (last.op = "read_bits" /\ last.err = "")
        => last.val = BitSeq(StreamValue(last.before, last.k), last.k)

\* C13: read_bits(k), 1 <= k <= 16, with at least k unread bits left,
\* returns normally the next k stream bits, whatever the residual.
C13_ReadBitsUpTo16 ==
    (last.op = "read_bits" /\ last.before + last.k <= 8 * Len(input))
        => /\ last.err = ""
           /\ last.val = BitSeq(StreamValue(last.before, last.k), last.k)

\* C14: after a successful read_bits the residual has 0..7 bits, they are
\* the high bits of the last byte fetched that were not delivered, and the
\* bytes taken from the reader are ceil(bits delivered / 8).
C14_ResidualIsRestOfLastByte ==
    (last.op = "read_bits" /\ last.err = "")
        => /\ remainder.len \in 0..7
           /\ pos = (last.delivered + 7) \div 8
           /\ remainder.len = 8 * pos - last.delivered
           /\ remainder.bits = IF remainder.len = 0 THEN 0
                               ELSE input[pos] \div Pow2(8 - remainder.len)

\* C20: a read_bits(k) with fewer than k unread bits in the residual and the
\* rest of a stream that ends fails with UnexpectedEof and delivers nothing:
\* no value, and the residual is as it was.
C20_ShortReadStep ==
    (last'.op = "read_bits" /\ last'.step = last.step + 1
         /\ ~io_fail /\ UnreadBits < last'.k)
        => /\ last'.err = "UnexpectedEof"
           /\ last'.val = BitSeq(0, 0)
           /\ last'.delivered = last.delivered
           /\ remainder' = remainder
C20_ShortReadIsUnexpectedEof == [][C20_ShortReadStep]_vars

\* C20 happens: after successful reads that left bits in the residual, a
\* read of more bits than are left has failed.
C20_ShortReadSeen ==
    /\ last.op = "read_bits" /\ last.err = "UnexpectedEof"
    /\ last.before > 0 /\ remainder.len > 0
    /\ pos = Len(input) /\ remainder.len < last.k

(* SpecSym: read_symbol calls on a fresh BitReader, with a table built by   *)
(* from_lengths                                                            *)

MaxSymStreamLen == 3   \* the longest byte stream
MaxSymReads == 2       \* read_symbol calls on one BitReader

SymBytes == {0, 2, 53, 255}
SymStreams == SeqsOver(SymBytes, MaxSymStreamLen)
\* Tables: none, one code of one bit, codes of 1 and 15 bits, and the
\* complete code of the tests of huffman_coding.rs
SymVectors == { <<0, 0>>, <<1>>, <<1, 15, 15>>, <<2, 3, 4, 3, 3, 4, 2>> }

\* the bits taken from the stream so far, the residual not counted
Consumed == 8 * pos - remainder.len

SymInit ==
    /\ input \in SymStreams /\ io_fail \in BOOLEAN /\ given = NoGiven
    /\ overflow_checks \in BOOLEAN
    /\ pc = "read_symbol" /\ result = "running" /\ member = 0 /\ pos = 0
    /\ remainder = BitSequenceNew(0, 0) /\ reached_last = FALSE
    /\ block = NoBlock
    /\ \E v \in SymVectors :
           /\ tree = [NoTree EXCEPT !.code_lengths = v]
           /\ coding = [litlen |-> FromLengths(v, "LitLen", overflow_checks).map,
                        dist |-> EmptyMap]
    /\ history = WriterNew.history
    /\ byte_count = WriterNew.byte_count
    /\ digest = WriterNew.digest
    /\ out = <<>>
    /\ last = [op |-> "new", err |-> "", step |-> 0, tok |-> NoToken, before |-> 0]

\* litlen.read_symbol(bit_reader)
SymReadSymbolOf(r) ==
    /\ pos' = r.pos /\ remainder' = r.rem
    /\ pc' = IF r.err = "" THEN pc ELSE "done"
    /\ result' = IF r.err = "" THEN result ELSE r.err
    /\ last' = [op |-> "read_symbol", err |-> r.err, step |-> last.step + 1,
                tok |-> r.tok, before |-> Consumed]
    /\ UNCHANGED <<input, io_fail, given, overflow_checks, member, reached_last, block,
                   coding, tree, history, byte_count, digest, out>>

SymReadSymbol ==
    /\ pc = "read_symbol" /\ last.step < MaxSymReads
    /\ SymReadSymbolOf(ReadSymbol(coding.litlen, pos, remainder, overflow_checks))

SymNext == SymReadSymbol

SpecSym == SymInit /\ [][SymNext]_vars

(* Claims about read_symbol, checked under SpecSym                         *)

\* The n stream bits from number d on as an accumulator: each later bit is
\* appended below the earlier ones
RECURSIVE AccValue(_, _)
AccValue(d, n) == IF n = 0 THEN 0 ELSE 2 * AccValue(d, n - 1) + StreamBit(d + n - 1)
\* How many bits are there to read from bit d on, 16 at most, and the
\* shortest accumulator among them that is a code word (0: there is none)
Readable(d) == Min(16, 8 * Len(input) - d)
Matches(d) == { n \in 1..Readable(d) : <<AccValue(d, n), n>> \in DOMAIN coding.litlen }
FirstMatch(d) ==
    IF Matches(d) = {} THEN 0 ELSE CHOOSE n \in Matches(d) : \A m \in Matches(d) : n <= m

\* C16: read_symbol returns the symbol of the shortest accumulator that is a
\* code word and takes exactly its bits; with no code word in 16 bits it
\* fails with BadCode, having read 16 bits; when the input ends first it
\* fails with the reader's error; it never reads more than 16 bits.
C16_ReadSymbolFirstMatch ==
    last.op = "read_symbol"
        => /\ Consumed - last.before <= 16
           /\ FirstMatch(last.before) # 0
                  => /\ last.err = ""
                     /\ last.tok = coding.litlen[<<AccValue(last.before,
                                                            FirstMatch(last.before)),
                                                   FirstMatch(last.before)>>]
                     /\ Consumed - last.before = FirstMatch(last.before)
           /\ (FirstMatch(last.before) = 0 /\ Readable(last.before) = 16)
                  => (last.err = "BadCode" /\ Consumed - last.before = 16)
           /\ (FirstMatch(last.before) = 0 /\ Readable(last.before) < 16)
                  => last.err = EndErr

\* C16 happens: a code word of 15 bits was read, bit by bit, after one of 1
\* bit.
C16_LongCodeWordRead ==
    /\ last.op = "read_symbol" /\ last.err = ""
    /\ last.before = 1 /\ Consumed = 16
    /\ tree.code_lengths = <<1, 15, 15>>

(* SpecBorrow: a fresh BitReader over a byte stream, read_bits calls on it, *)
(* and bytes read through borrow_reader_from_boundary in between           *)

\* What the caller reads through the borrowed reader: nothing, read_u8,
\* read_u16
BorrowLens == 0..2

BorrowInit ==
    /\ input \in ByteStreams /\ io_fail \in BOOLEAN /\ given = NoGiven
    /\ overflow_checks \in BOOLEAN
    /\ pc = "bit_reader" /\ result = "running" /\ member = 0 /\ pos = 0
    /\ remainder = BitSequenceNew(0, 0) /\ reached_last = FALSE
    /\ block = NoBlock /\ coding = NoCoding /\ tree = NoTree
    /\ history = WriterNew.history
    /\ byte_count = WriterNew.byte_count
    /\ digest = WriterNew.digest
    /\ out = <<>>
    /\ last = [op |-> "new", err |-> "", step |-> 0, k |-> 0, val |-> BitSeq(0, 0),
               bytes |-> <<>>, from |-> 0, next_bit |-> 0, after_borrow |-> FALSE]

\* The first stream bit of the first byte no bit of which is before bit n
Boundary(n) == 8 * ((n + 7) \div 8)

\* bit_reader.read_bits(k).  `from` is the number of the stream bit that is
\* due next when the call is made, `next_bit` the one due after it: the bits
\* delivered and the bytes read through the borrowed reader are passed.
BorrowReadBitsOf(r, k) ==
    /\ pos' = r.pos /\ remainder' = r.rem
    /\ pc' = IF r.err = "" THEN pc ELSE "done"
    /\ result' = IF r.err = "" THEN result ELSE r.err
    /\ last' = [op |-> "read_bits", err |-> r.err, step |-> last.step + 1, k |-> k,
                val |-> r.val, bytes |-> <<>>, from |-> last.next_bit,
                next_bit |-> IF r.err = "" THEN last.next_bit + k ELSE last.next_bit,
                after_borrow |-> last.op = "borrow"]
    /\ UNCHANGED <<input, io_fail, given, overflow_checks, member, reached_last, block,
                   coding, tree, history, byte_count, digest, out>>

BorrowReadBits ==
    /\ pc = "bit_reader" /\ last.step < MaxReads
    /\ \E k \in ReadLens : BorrowReadBitsOf(ReadBits(pos, remainder, k, overflow_checks), k)

\* bit_reader.borrow_reader_from_boundary().read_exact(n bytes)
BorrowReadBytesOf(b, r) ==
    /\ pos' = IF b.err = "" THEN r.pos ELSE pos
    /\ remainder' = b.rem
    /\ pc' = IF b.err = "" /\ r.err = "" THEN pc ELSE "done"
    /\ result' = IF b.err # "" THEN b.err ELSE IF r.err # "" THEN r.err ELSE result
    /\ last' = [op |-> "borrow", err |-> IF b.err # "" THEN b.err ELSE r.err,
                step |-> last.step + 1, k |-> 0, val |-> BitSeq(0, 0),
                bytes |-> IF b.err = "" THEN r.bytes ELSE <<>>,
                from |-> last.next_bit,
                next_bit |-> IF b.err = "" /\ r.err = ""
                             THEN Boundary(last.next_bit) + 8 * Len(r.bytes)
                             ELSE last.next_bit,
                after_borrow |-> FALSE]
    /\ UNCHANGED <<input, io_fail, given, overflow_checks, member, reached_last, block,
                   coding, tree, history, byte_count, digest, out>>

BorrowReadBytes ==
    /\ pc = "bit_reader" /\ last.step < MaxReads
    /\ \E n \in BorrowLens :
           BorrowReadBytesOf(BorrowReaderFromBoundary(remainder, overflow_checks),
                             ReadExact(pos, n))

BorrowNext == BorrowReadBits \/ BorrowReadBytes

SpecBorrow == BorrowInit /\ [][BorrowNext]_vars

\* C21: after successful read_bits calls, borrow_reader_from_boundary leaves
\* no residual bit and the reader it returns stands at the first byte no bit
\* of which was delivered: the bytes read through it are the stream's bytes
\* from there on; the read_bits that follows returns the stream bits from
\* bit 0 of the byte after them.
C21_BorrowAtByteBoundary ==
    /\ (last.op = "borrow" /\ last.err = "")
           => /\ remainder.len = 0
              /\ 8 * pos = last.next_bit
              /\ last.bytes = SubSeq(input, Boundary(last.from) \div 8 + 1, pos)
    /\ (last.op = "read_bits" /\ last.err = "" /\ last.after_borrow)
           => /\ last.from % 8 = 0
              /\ last.val = BitSeq(StreamValue(last.from, last.k), last.k)

(* More claims about the whole call, checked under Spec                    *)

\* The stream bits not yet taken by the BitReader
BitsLeft == 8 * Len(input) - Consumed
InBlock == pc \in {"stored", "fixed", "dynamic", "code_lengths", "build", "symbol"}

\* The step taken where a block header is due
C22_HeaderStep ==
    pc = "next_block"
        => IF reached_last
           THEN pc' = "trailer" /\ UNCHANGED <<pos, remainder, out, byte_count, digest>>
           ELSE IF BitsLeft < 3
           THEN pc' = "done" /\ result' = EndErr /\ out' = out
           ELSE IF StreamValue(Consumed + 1, 2) = 3
           THEN pc' = "done" /\ result' = "BadBlockType" /\ out' = out
           ELSE /\ block' = [is_final |-> StreamBit(Consumed) = 1,
                             compression_type |-> StreamValue(Consumed + 1, 2)]
                /\ reached_last' = block'.is_final
                /\ pc' = <<"stored", "fixed", "dynamic">>[block'.compression_type + 1]
                /\ 8 * pos' - remainder'.len = Consumed + 3
                /\ out' = out
\* A block is being processed, or the blocks are over
C22_FinalBlockNoted ==
    /\ InBlock => reached_last = block.is_final
    /\ pc = "trailer" => (reached_last /\ block.is_final)
    /\ TrailerCompared
           => /\ last.actual_size = U32(0, Len(MemberBytes))
              /\ last.actual_crc = Crc32(MemberBytes)

\* C22: where a block header is due and the last block read had BFINAL = 0
\* (or none was read), the next three stream bits are read as BFINAL and
\* BTYPE; BTYPE = 11 fails with BadBlockType, nothing written; when the last
\* block had BFINAL = 1 no bit is read, and the byte count and the CRC-32
\* that deflate returns are those of the bytes written for the member.
C22_BlocksInOrder == [][C22_HeaderStep]_vars /\ []C22_FinalBlockNoted

\* C22 happens: a dynamic block with BFINAL = 0 and a stored block with
\* BFINAL = 1 were processed, and the trailer is next.
C22_TwoBlocksThenTrailer ==
    /\ pc = "trailer" /\ member = 1
    /\ given.members[1].kind = "dynamic, stored"
    /\ out = <<97, 97, 104, 105>>

\* Where a stored block is due: the first byte no bit of which was taken,
\* and LEN and NLEN as the four bytes from there say
StoredAt == Boundary(Consumed) \div 8
StoredLen == input[StoredAt + 1] + 256 * input[StoredAt + 2]
StoredNlen == input[StoredAt + 3] + 256 * input[StoredAt + 4]

\* C23: for a stored block the bits left of the current byte are dropped and
\* LEN and NLEN are the little-endian 16-bit values at the next byte
\* boundary; an NLEN that is not the complement of LEN fails with
\* BadStoredHeader, nothing written; otherwise the LEN bytes that follow are
\* appended to the output as they are (none for LEN = 0), and the next block
\* header is due at bit 0 of the byte after them.  An input that ends within
\* the block fails with the reader's error, nothing written.
C23_StoredStep ==
    pc = "stored"
        => IF Len(input) < StoredAt + 4
           THEN pc' = "done" /\ result' = EndErr /\ out' = out
           ELSE IF StoredNlen # 65535 - StoredLen
           THEN pc' = "done" /\ result' = "BadStoredHeader" /\ out' = out
           ELSE IF Len(input) < StoredAt + 4 + StoredLen
           THEN pc' = "done" /\ result' = EndErr /\ out' = out
           ELSE /\ out' = out \o SubSeq(input, StoredAt + 5, StoredAt + 4 + StoredLen)
                /\ byte_count' = byte_count + StoredLen
                /\ pos' = StoredAt + 4 + StoredLen
                /\ remainder' = BitSeq(0, 0)
                /\ pc' = "next_block" /\ result' = result
C23_StoredBlockCopied == [][C23_StoredStep]_vars

\* C23 happens: a stored block that follows a dynamic block, its header in
\* the middle of a byte, has been copied.
C23_StoredAfterBitsCopied ==
    /\ last.op = "stored" /\ last.err = "" /\ pc = "next_block"
    /\ given.members[1].kind = "dynamic, stored"
    /\ Len(DynBits(<<>>, 0, DynLengths, DynA \o DynA \o DynEob) \o <<1, 0, 0>>) % 8 # 0
    /\ out = <<97, 97, 104, 105>>

\* The code-length symbol that is next, and the bits left after it
NextCode5 == ReadSymbol(tree.tree_code, pos, remainder, overflow_checks)
AfterNextCode == 8 * NextCode5.pos - NextCode5.rem.len
CopyPrevNext ==
    /\ pc = "code_lengths"
    /\ NextCode5.err = "" /\ NextCode5.tok.kind = "CopyPrev"
    /\ 8 * Len(input) - AfterNextCode >= 2

\* C24: a CopyPrev symbol (16) read, with its two extra bits, when no code
\* length has been decoded yet fails with BadTree; when there is a length
\* before it, that length is appended 3 + (the two extra bits) times,
\* between 3 and 6 times; nothing else is changed in the vector.
C24_CopyPrevStep ==
    CopyPrevNext
        => IF tree.code_lengths = <<>>
           THEN pc' = "done" /\ result' = "BadTree"
           ELSE /\ result' = result
                /\ tree'.code_lengths
                       = tree.code_lengths
                             \o Repeat(tree.code_lengths[Len(tree.code_lengths)],
                                       3 + StreamValue(AfterNextCode, 2))
                /\ Len(tree'.code_lengths) - Len(tree.code_lengths) \in 3..6
                /\ 8 * pos' - remainder'.len = AfterNextCode + 2
ReservedGiven ==
    \E i \in {287, 288} :
        i <= tree.hlit /\ i <= Len(tree.code_lengths) /\ tree.code_lengths[i] > 0
LitLenDecoded == last.op \in {"literal", "write_previous", "end_of_block"}

\* C25: a dynamic block whose literal/length tree gives symbol 286 or 287 a
\* non-zero length fails with BadTree when its tables are built, and no
\* literal/length symbol of a dynamic block is decoded with a table built
\* from such a tree.
C25_ReservedIsBadTree ==
    /\ (last.op = "build_trees" /\ ReservedGiven) => (pc = "done" /\ result = "BadTree")
    /\ (block.compression_type = 2 /\ (pc = "symbol" \/ LitLenDecoded)) => ~ReservedGiven

(* A further claim about HuffmanCoding, checked under SpecHuff             *)

\* The symbols (from 1) that the vector gives a length
Coded(L) == {i \in 1..Len(L) : L[i] > 0}

\* C26: in every table that from_lengths returns, each symbol with a length
\* above 0 has a code word of its own that decodes to it (as many entries as
\* there are such symbols, none taken over by another symbol), and no proper
\* prefix of a code word is a code word.
C26_EverySymbolItsOwnCode ==
    (last.op = "from_lengths" /\ last.err = "")
        => /\ Cardinality(DOMAIN coding.litlen) = Cardinality(Coded(tree.code_lengths))
           /\ \A i \in Coded(tree.code_lengths) :
                  \E key \in DOMAIN coding.litlen :
                      /\ key[2] = tree.code_lengths[i]
                      /\ coding.litlen[key] = TryFrom(last.alphabet, i - 1).tok
           /\ \A key \in DOMAIN coding.litlen :
                  ProperPrefixes(key) \cap DOMAIN coding.litlen = {}

(* SpecLive: decompress as a sequential program, which takes its next step  *)
(* as long as it has one                                                   *)

\* The call has a next step exactly when it has not ended: each step's guard
\* is the place in the code alone, and the driver returns at "done".
NextEnabled == pc # "done"

\* Weak fairness of Next, written out with NextEnabled for ENABLED <<Next>>_vars:
\* the thread that runs decompress is not stopped for ever in the middle.
SpecLive == Spec /\ ([]<>(~NextEnabled) \/ []<><<Next>>_vars)

\* Steps that take no bit from the input lead to a place from which the
\* next step takes some or ends the call: the driver's peek before the
\* header, next_block's test of reached_last before the trailer, and the
\* building of the tables before the first symbol
PcRank == [peek |-> 1, header |-> 0, next_block |-> 1, stored |-> 0, fixed |-> 1,
           dynamic |-> 0, code_lengths |-> 0, build |-> 1, symbol |-> 0, trailer |-> 0,
           done |-> -1]
InLoopBody == pc \in {"header", "stored", "dynamic", "code_lengths", "symbol", "trailer"}

\* Every step takes at least one bit from the input, or leaves the input
\* where it is and moves on to a step that does or to the end; a step of the
\* header, a stored block, the code-length loop, the symbol loop or the
\* trailer takes at least one bit or ends the call; a back-reference has
\* dist >= 1 and 3 <= len <= 258, so each turn of the extension loop of
\* write_previous adds at least one byte to a run of at most 258.
C27_ProgressStep ==
    /\ \/ BitsLeft' < BitsLeft
       \/ BitsLeft' = BitsLeft /\ PcRank[pc'] < PcRank[pc]
    /\ InLoopBody => (BitsLeft' < BitsLeft \/ pc' = "done")
    /\ BitsLeft' >= 0
    /\ (last'.op = "write_previous" /\ last'.err = "")
           => /\ last'.dist >= 1 /\ last'.len \in 3..258
              /\ Len(out') = Len(out) + last'.len

====
